---- MODULE Spec2Model ----
(***************************************************************************)
(* FutureSDR Soapy blocks: the device session (SoapyDevice), its scoped    *)
(* configuration engine (apply_config) and its initialization              *)
(* (apply_init_config, SoapySource::init / SoapySink::init).               *)
(*                                                                         *)
(* A session is a SoapySource (block default direction Rx) or a SoapySink  *)
(* (block default direction Tx).  A run of the model is one block: it is   *)
(* constructed, initialized, and receives configuration sequences on its   *)
(* "cmd" port.  apply_config is modelled statement by statement: one step  *)
(* for its prologue, one per scope item, one per device call.              *)
(***************************************************************************)
EXTENDS Integers, Sequences, FiniteSets, TLC

\* ------------------------------------------------------------------ bounds

\* Items one run may hand to the engine in all (init sequence + commands).
MaxItems == 2
\* Hardware channels are 0..MaxChan.
MaxChan == 1

\* ------------------------------------------------------------------ data

Sessions == {"source", "sink"}
Dirs == {"Rx", "Tx"}
Chans == 0 .. MaxChan
Selectors == {"Default", "Rx", "Tx", "Both", "None"}
SettingKinds == {"Antenna", "Bandwidth", "Freq", "Gain", "SampleRate"}

\* SoapyConfigItem: every item has the same four fields; `some`/`v` carry a
\* Channel's Option<usize> or a setting's value, `d` a Direction's selector.
Channel(some, i) == [k |-> "Channel", some |-> some, v |-> i, d |-> "None"]
Direction(d) == [k |-> "Direction", some |-> FALSE, v |-> 0, d |-> d]
Setting(k, v) == [k |-> k, some |-> TRUE, v |-> v, d |-> "None"]

ScopeItems ==
    {Channel(FALSE, 0)} \cup {Channel(TRUE, i) : i \in Chans}
        \cup {Direction(d) : d \in Selectors}
\* The engine never inspects the value of a setting, it only hands it to the
\* device: the n-th item a run gives to the engine carries the value n, so
\* that any two writes of a run can be told apart on the device.
Items(v) == ScopeItems \cup {Setting(k, v) : k \in SettingKinds}

\* A push that puts the item in front.
push_front(cfg, item) == <<item>> \o cfg

\* mod.rs:251,257: Vec::push, the item goes to the end.
push(cfg, item) == Append(cfg, item)

\* What SoapyDevBuilder can push: freq, sample_rate, gain, antenna.
BuilderKinds == {"Freq", "SampleRate", "Gain", "Antenna"}

\* A call of a builder method: channel(v) or the method of a setting kind.
BuilderCall(m, v) == [m |-> m, v |-> v]

\* mod.rs:250-284: what one method does to the SoapyInitConfig of the builder.
builder_method(ic, c) ==
    IF c.m = "channel" THEN [ic EXCEPT !.chans = push(@, c.v)]
    ELSE [ic EXCEPT !.config = push(@, Setting(c.m, c.v))]

\* SoapyInitConfig::default() taken through the calls cs, in call order; the
\* calls themselves are kept (methods) for the properties.
RECURSIVE build(_, _)
build(ic, cs) ==
    IF cs = <<>> THEN ic
    ELSE build([builder_method(ic, Head(cs)) EXCEPT !.methods = Append(@, Head(cs))], Tail(cs))

\* tests/soapy.rs:40-46 (builder_config): channel(0), sample_rate(1e6),
\* freq(100e6), gain(1.0), rates and frequencies in MHz.
BuilderConfigCalls ==
    <<BuilderCall("channel", 0), BuilderCall("SampleRate", 1),
      BuilderCall("Freq", 100), BuilderCall("Gain", 1)>>

RECURSIVE SeqsUpTo(_, _)
SeqsUpTo(S, n) ==
    IF n = 0 THEN {<<>>}
    ELSE LET shorter == SeqsUpTo(S, n - 1)
         IN  shorter \cup {Append(q, x) : q \in {r \in shorter : Len(r) = n - 1}, x \in S}

\* Sequences of the repository's tests and of the specification's examples.
\* [Channel(Some(1)), Direction(Tx), SampleRate(2e6)]
SampleRateScopeSeq ==
    <<Channel(TRUE, 1), Direction("Tx"), Setting("SampleRate", 2)>>
\* [Channel(Some(1)), Gain(2.0), Channel(None), Gain(3.0)]
ChannelResetSeq ==
    <<Channel(TRUE, 1), Setting("Gain", 2), Channel(FALSE, 0), Setting("Gain", 3)>>
\* tests/soapy.rs config_cmd_any_multichan (frequencies in MHz)
MultichanSeq ==
    << Channel(FALSE, 0), Direction("Both"), Setting("Gain", 1),
       Direction("Rx"), Setting("Freq", 90),
       Direction("Tx"), Setting("Freq", 100),
       Channel(TRUE, 0), Direction("Both"), Setting("Gain", 2),
       Channel(TRUE, 1), Direction("Rx"), Setting("Gain", 3) >>
NamedSeqs == {SampleRateScopeSeq, ChannelResetSeq, MultichanSeq}

\* What the builder's channel() calls can leave in SoapyInitConfig::chans.
InitChans == {<<>>, <<0>>, <<0, 1>>}
DevSpecs == {"Dev", "Filter"}

\* The configuration sequences a caller sends.  A named sequence is known in
\* full when the handler starts and takes the whole budget of a run; of any
\* other sequence the model holds the items the loop of apply_config has
\* reached, and draws the next one (or the end of the sequence) when the loop
\* gets there: the engine never looks ahead.
InitSeqs ==
    {[n \in 1 .. Len(ks) |-> Setting(ks[n], n)] : ks \in SeqsUpTo(BuilderKinds, MaxItems)}

\* The calls made on a builder: the channel() calls of a channel list of
\* InitChans, then the setting methods of a sequence of InitSeqs (as the tests
\* and the examples write them), or the calls of builder_config.
BuilderCalls ==
    {[n \in 1 .. Len(ic) |-> BuilderCall("channel", ic[n])]
        \o [n \in 1 .. Len(cfg) |-> BuilderCall(cfg[n].k, cfg[n].v)] :
            ic \in InitChans, cfg \in InitSeqs}
        \cup {BuilderConfigCalls}

\* ------------------------------------------------------------------ Pmt

\* futuresdr_pmt::Pmt as the handlers of the block tell its values apart: the
\* variant t and the payload v of a scalar.  An Any is told apart by the type
\* it downcasts to.
Pmt(t, v) == [t |-> t, v |-> v]
NumericTypes == {"F64", "F32", "U32", "U64"}
AnyTypes == {"AnyConfig", "AnyCommandConfig", "AnyCommandGetConfig", "AnyOther"}

\* The float that is not equal to itself.
NaN == -1
FloatTypes == {"F32", "F64"}

\* A coercion that takes floats only.
pmt_to_f64_floats_only(p) ==
    IF p.t \in FloatTypes THEN [ok |-> TRUE, v |-> p.v] ELSE [ok |-> FALSE, v |-> 0]

\* config.rs:7-16: `*v as f64` on the four numeric variants, bail! on the rest.
pmt_to_f64(p) ==
    IF p.t \in NumericTypes THEN [ok |-> TRUE, v |-> p.v] ELSE [ok |-> FALSE, v |-> 0]

\* config.rs:19-28: `*v as usize` on the four numeric variants (a NaN casts to
\* 0), bail! on the rest.
pmt_to_usize(p) ==
    IF p.t \in NumericTypes
    THEN [ok |-> TRUE, v |-> IF p.t \in FloatTypes /\ p.v = NaN THEN 0 ELSE p.v]
    ELSE [ok |-> FALSE, v |-> 0]

\* One (name, value) pair of a Pmt::MapStrPmt.
Entry(key, val) == [key |-> key, val |-> val]
MapKeys == {"antenna", "bandwidth", "chan", "freq", "gain", "rate"}
Keys(m) == {m[n].key : n \in 1 .. Len(m)}

\* The match on an unrecognized name that gives the conversion up.
map_entry_unknown_fails(e) ==
    CASE e.key = "antenna" /\ e.val.t = "String" -> [act |-> "set", v |-> e.val.v]
      [] e.key \in {"bandwidth", "freq", "gain", "rate"} ->
            IF pmt_to_f64(e.val).ok THEN [act |-> "set", v |-> pmt_to_f64(e.val).v]
            ELSE [act |-> "fail", v |-> 0]
      [] e.key = "chan" ->
            IF pmt_to_usize(e.val).ok THEN [act |-> "set", v |-> pmt_to_usize(e.val).v]
            ELSE [act |-> "fail", v |-> 0]
      [] OTHER -> [act |-> "fail", v |-> 0]

\* config.rs:149-161: the match on (name, value) of one pair: the pair sets its
\* setting to v, the `?` on a failed coercion returns the error from try_from,
\* or the pair is logged and ignored.
map_entry(e) ==
    CASE e.key = "antenna" /\ e.val.t = "String" -> [act |-> "set", v |-> e.val.v]
      [] e.key \in {"bandwidth", "freq", "gain", "rate"} ->
            IF pmt_to_f64(e.val).ok THEN [act |-> "set", v |-> pmt_to_f64(e.val).v]
            ELSE [act |-> "fail", v |-> 0]
      [] e.key = "chan" ->
            IF pmt_to_usize(e.val).ok THEN [act |-> "set", v |-> pmt_to_usize(e.val).v]
            ELSE [act |-> "fail", v |-> 0]
      [] OTHER -> [act |-> "skip", v |-> 0]

\* The item a recognized pair produces.
produced_item(key, v) ==
    CASE key = "antenna" -> Setting("Antenna", v)
      [] key = "bandwidth" -> Setting("Bandwidth", v)
      [] key = "chan" -> Channel(TRUE, v)
      [] key = "freq" -> Setting("Freq", v)
      [] key = "gain" -> Setting("Gain", v)
      [] key = "rate" -> Setting("SampleRate", v)

\* The configuration once a recognized pair has produced its item: the item
\* is appended, whatever the pairs before it were.
produce(cfg, key, v) == push(cfg, produced_item(key, v))

\* config.rs:146-164: `for (n, v) in m.iter()` over the pairs in the order the
\* map yields them, from the configuration built so far.
RECURSIVE try_from_map(_, _)
try_from_map(m, cfg) ==
    IF m = <<>> THEN [ok |-> TRUE, cfg |-> cfg]
    ELSE LET r == map_entry(Head(m))
         IN  CASE r.act = "fail" -> [ok |-> FALSE, cfg |-> <<>>]
               [] r.act = "skip" -> try_from_map(Tail(m), cfg)
               [] OTHER -> try_from_map(Tail(m), produce(cfg, Head(m).key, r.v))

\* A message: the port it arrives at, the Pmt (t, v), the pairs of a map in
\* iteration order (entries) and the configuration an Any holds (cfg; `open`
\* when the model draws its items as the engine reaches them).
Msg(port, t, v, entries, cfg, open) ==
    [port |-> port, t |-> t, v |-> v, entries |-> entries, cfg |-> cfg, open |-> open]
NoMsg == Msg("none", "Null", 0, <<>>, <<>>, FALSE)

\* config.rs:137-166: SoapyConfig::try_from(pmt)
try_from(m) ==
    CASE m.t = "AnyConfig" -> [ok |-> TRUE, cfg |-> m.cfg]
      [] m.t \in AnyTypes -> [ok |-> FALSE, cfg |-> <<>>]
      [] m.t = "MapStrPmt" -> try_from_map(m.entries, <<>>)
      [] OTHER -> [ok |-> FALSE, cfg |-> <<>>]

\* A handler that takes any SoapyCommand for a configuration.
resolve_any_command(m) ==
    CASE m.t \in {"AnyCommandConfig", "AnyCommandGetConfig"} -> [ok |-> TRUE, cfg |-> m.cfg]
      [] OTHER -> try_from(m)

\* A handler that implements no SoapyCommand at all.
resolve_no_command(m) ==
    CASE m.t \in {"AnyCommandConfig", "AnyCommandGetConfig"} -> [ok |-> FALSE, cfg |-> <<>>]
      [] OTHER -> try_from(m)

\* mod.rs:51-70: what base_cmd_handler makes of the Pmt before it applies it.
resolve(m) ==
    CASE m.t = "AnyCommandConfig" -> [ok |-> TRUE, cfg |-> m.cfg]
      [] m.t = "AnyCommandGetConfig" -> [ok |-> FALSE, cfg |-> <<>>]
      [] OTHER -> try_from(m)

\* The pairs a map can hold whose values carry the stamp v: every key with a
\* value of the shape its arm accepts and with one it does not, and a key no
\* arm names.
Entries(v) ==
    {Entry(k, Pmt(t, v)) : k \in MapKeys \ {"chan"}, t \in {"F64", "String"}}
        \cup {Entry("chan", Pmt("U32", i)) : i \in Chans}
        \cup {Entry("chan", Pmt("String", v)), Entry("bogus", Pmt("U32", v))}

\* The maps of at most n pairs, keys unique, in every iteration order; the
\* j-th pair carries the stamp base + j - 1.
RECURSIVE Maps(_, _)
Maps(n, base) ==
    IF n = 0 THEN {<<>>}
    ELSE LET shorter == Maps(n - 1, base)
             longest == {r \in shorter : Len(r) = n - 1}
         IN  shorter \cup
             {Append(x[1], x[2]) :
                 x \in {y \in longest \X Entries(base + n - 1) : y[2].key \notin Keys(y[1])}}

\* Values that resolve to no configuration.
RejectedPmts ==
    {Pmt("Null", 0), Pmt("F64", 1), Pmt("String", 1), Pmt("AnyOther", 0),
     Pmt("AnyCommandGetConfig", 0)}

\* ------------------------------------------------------------------ Pmt values

\* How deep a VecPmt or a MapStrPmt nests.
MaxDepth == 2

\* The floats, the unsigned integers, the strings and the bytes values hold.
Floats == {1, 2, NaN}
Unsigned == {1, 2}
Strings == {1, 2}

\* The types an Any holds (lib.rs:274, mod.rs:51-52, config.rs:140) and the
\* types that implement PmtAnySerde (lib.rs:220-228).
AnyPayloadTypes == {"SoapyConfig", "SoapyCommand", "Tuple"}
Registry == {"TestStruct"}
PayloadTypes == AnyPayloadTypes \cup Registry \cup {"Unrelated"}

\* A boxed payload: its concrete type and its fields.
Payload(type, x) == [type |-> type, x |-> x]

\* lib.rs:81-96: the variants that hold more than a scalar: a vector of
\* numbers (ns), a vector of values (ps), the pairs of a map in iteration
\* order (es), a box (b).
PmtNums(t, ns) == [t |-> t, ns |-> ns]
PmtVec(ps) == [t |-> "VecPmt", ps |-> ps]
PmtMap(es) == [t |-> "MapStrPmt", es |-> es]
PmtBox(t, b) == [t |-> t, b |-> b]

\* lib.rs:81-96 without VecPmt and MapStrPmt.
FlatPmts ==
    {Pmt("Null", 0)}
        \cup {Pmt("String", x) : x \in Strings}
        \cup {Pmt(t, x) : t \in {"U32", "U64"}, x \in Unsigned}
        \cup {Pmt(t, x) : t \in {"F32", "F64"}, x \in Floats}
        \cup {PmtNums("VecF32", q) : q \in {<<>>, <<1>>, <<NaN>>}}
        \cup {PmtNums(t, q) : t \in {"VecU64", "Blob"}, q \in {<<>>, <<1>>}}
        \cup {PmtBox("Any", Payload(T, 1)) : T \in AnyPayloadTypes}
        \cup {PmtBox("AnySerde", Payload(T, x)) : T \in Registry, x \in Unsigned}

\* The values that nest at most d deep: a VecPmt of one element or of two and
\* a MapStrPmt of one pair or of two (both iteration orders) over the values
\* one level down (lib.rs:280, 295-304).
RECURSIVE PmtValues(_)
PmtValues(d) ==
    IF d = 0 THEN FlatPmts
    ELSE LET inner == PmtValues(d - 1)
             pairs == {<<Pmt("U32", 1), x>> : x \in inner}
         IN  inner
               \cup {PmtVec(<<>>), PmtMap(<<>>)}
               \cup {PmtVec(<<x>>) : x \in inner}
               \cup {PmtVec(<<y[1], y[2]>>) : y \in pairs}
               \cup {PmtMap(<<Entry("str", x)>>) : x \in inner}
               \cup {PmtMap(<<Entry("str", y[1]), Entry("submap", y[2])>>) : y \in pairs}
               \cup {PmtMap(<<Entry("submap", y[2]), Entry("str", y[1])>>) : y \in pairs}

OpaqueTypes == {"Any", "AnySerde"}
NumsTypes == {"VecF32", "VecU64", "Blob"}

\* `x == y` on f32 and f64.
float_eq(x, y) == x # NaN /\ y # NaN /\ x = y

\* `x == y` on Vec<f32>, Vec<u64> and Vec<u8>: element by element.
nums_eq(t, xs, ys) ==
    /\ Len(xs) = Len(ys)
    /\ \A n \in 1 .. Len(xs) : IF t = "VecF32" THEN float_eq(xs[n], ys[n]) ELSE xs[n] = ys[n]

\* An equality that takes a box for equal to itself and to its clone.
RECURSIVE eq_opaque_by_payload(_, _)
eq_opaque_by_payload(a, b) ==
    IF a.t # b.t THEN FALSE
    ELSE IF a.t \in OpaqueTypes THEN a.b = b.b
    ELSE IF a.t = "Null" THEN TRUE
    ELSE IF a.t \in FloatTypes THEN float_eq(a.v, b.v)
    ELSE IF a.t \in NumsTypes THEN nums_eq(a.t, a.ns, b.ns)
    ELSE IF a.t = "VecPmt"
         THEN Len(a.ps) = Len(b.ps)
                 /\ \A n \in 1 .. Len(a.ps) : eq_opaque_by_payload(a.ps[n], b.ps[n])
    ELSE IF a.t = "MapStrPmt"
         THEN Len(a.es) = Len(b.es)
                 /\ \A n \in 1 .. Len(a.es) : \E k \in 1 .. Len(b.es) :
                       b.es[k].key = a.es[n].key
                          /\ eq_opaque_by_payload(a.es[n].val, b.es[k].val)
    ELSE a.v = b.v

\* lib.rs:98-116: impl PartialEq for Pmt.  The arms compare the payloads with
\* `x == y`: floats as floats, a Vec element by element, a HashMap pair by pair
\* whatever the order; every other pairing, the boxes among them, is false.
RECURSIVE eq(_, _)
eq(a, b) ==
    IF a.t # b.t THEN FALSE
    ELSE IF a.t \in OpaqueTypes THEN FALSE
    ELSE IF a.t = "Null" THEN TRUE
    ELSE IF a.t \in FloatTypes THEN float_eq(a.v, b.v)
    ELSE IF a.t \in NumsTypes THEN nums_eq(a.t, a.ns, b.ns)
    ELSE IF a.t = "VecPmt"
         THEN Len(a.ps) = Len(b.ps) /\ \A n \in 1 .. Len(a.ps) : eq(a.ps[n], b.ps[n])
    ELSE IF a.t = "MapStrPmt"
         THEN Len(a.es) = Len(b.es)
                 /\ \A n \in 1 .. Len(a.es) : \E k \in 1 .. Len(b.es) :
                       b.es[k].key = a.es[n].key /\ eq(a.es[n].val, b.es[k].val)
    ELSE a.v = b.v

\* #[derive(Clone)] and dyn_clone (lib.rs:15, 68, 80): a deep copy.
clone(p) == p

\* A downcast that hands out the payload whatever its type.
downcast_ref_unchecked(p, T) == [some |-> TRUE, x |-> p.b.x]

\* lib.rs:26-33, 70-77: Any::downcast_ref::<T> on the payload of the box.
downcast_ref(p, T) ==
    IF p.b.type = T THEN [some |-> TRUE, x |-> p.b.x] ELSE [some |-> FALSE, x |-> 0]

\* ------------------------------------------------------------------ Pmt on the wire

\* What an operation returns.
Ok(x) == [ok |-> TRUE, v |-> x]
Err(e) == [ok |-> FALSE, e |-> e]

\* A serialized enum value: the name of its variant and the variant's content,
\* a scalar (v), numbers (ns), serialized values (ps), named serialized
\* values (es) or the tagged fields of a boxed payload (tagged).
Wire(variant, v) == [variant |-> variant, v |-> v]
WireNums(variant, ns) == [variant |-> variant, ns |-> ns]
WireVec(variant, ps) == [variant |-> variant, ps |-> ps]
WireMap(variant, es) == [variant |-> variant, es |-> es]
WireTagged(variant, tagged) == [variant |-> variant, tagged |-> tagged]

\* lib.rs:80-96: the variants #[derive(Serialize, Deserialize)] knows by name;
\* #[serde(skip)] takes Any out of both directions.
WireVariants ==
    {"Null", "String", "U32", "U64", "F32", "F64", "VecF32", "VecU64", "Blob", "VecPmt",
     "MapStrPmt", "AnySerde"}

\* A writer that names a variant by the width it is stored in.
variant_name_by_width(t) == IF t = "U32" THEN "U64" ELSE IF t = "F32" THEN "F64" ELSE t

\* lib.rs:80-96: a variant goes on the wire under its own name.
variant_name(t) == t

\* A writer that puts only the tag of a boxed payload on the wire.
encode_tagged_tag_only(payload) == [type |-> payload.type, fields |-> 0]

\* lib.rs:63: #[typetag::serde(tag = "type")] writes the payload's fields and
\* the name of its type under "type".
encode_tagged(payload) == [type |-> payload.type, fields |-> payload.x]

\* A reader that puts a default payload in the place of one it has no decoder for.
decode_tagged_or_default(e) ==
    IF e.type \in Registry THEN Ok(Payload(e.type, e.fields))
    ELSE Ok(Payload("TestStruct", 0))

\* lib.rs:63: the reader looks the tag up among the registered
\* implementations of PmtAnySerde.
decode_tagged(e) ==
    IF e.type \in Registry THEN Ok(Payload(e.type, e.fields)) ELSE Err("unknown variant")

\* The first error among rs, if any.
FirstErr(rs) ==
    LET bad == {n \in 1 .. Len(rs) : ~rs[n].ok}
    IN  IF bad = {} THEN 0 ELSE CHOOSE n \in bad : \A m \in bad : n <= m

\* lib.rs:80-96: Serialize for Pmt.  The first error of an element is the
\* error of the whole.
RECURSIVE serialize(_)
serialize(p) ==
    IF p.t = "Any" THEN Err("the enum variant Pmt::Any cannot be serialized")
    ELSE IF p.t = "AnySerde" THEN Ok(WireTagged(variant_name(p.t), encode_tagged(p.b)))
    ELSE IF p.t \in NumsTypes THEN Ok(WireNums(variant_name(p.t), p.ns))
    ELSE IF p.t = "VecPmt"
         THEN LET ws == [n \in 1 .. Len(p.ps) |-> serialize(p.ps[n])]
              IN  IF FirstErr(ws) # 0 THEN ws[FirstErr(ws)]
                  ELSE Ok(WireVec(variant_name(p.t), [n \in 1 .. Len(ws) |-> ws[n].v]))
    ELSE IF p.t = "MapStrPmt"
         THEN LET ws == [n \in 1 .. Len(p.es) |-> serialize(p.es[n].val)]
              IN  IF FirstErr(ws) # 0 THEN ws[FirstErr(ws)]
                  ELSE Ok(WireMap(variant_name(p.t),
                                  [n \in 1 .. Len(ws) |-> Entry(p.es[n].key, ws[n].v)]))
    ELSE Ok(Wire(variant_name(p.t), p.v))

Reverse(q) == [n \in 1 .. Len(q) |-> q[Len(q) + 1 - n]]

\* lib.rs:80-96: Deserialize for Pmt.  A HashMap read back iterates in an
\* order of its own: as written, or (rev) the other way round.
RECURSIVE deserialize(_, _)
deserialize(w, rev) ==
    IF w.variant \notin WireVariants THEN Err("unknown variant")
    ELSE IF w.variant = "AnySerde"
         THEN LET r == decode_tagged(w.tagged)
              IN  IF r.ok THEN Ok(PmtBox("AnySerde", r.v)) ELSE r
    ELSE IF w.variant \in NumsTypes THEN Ok(PmtNums(w.variant, w.ns))
    ELSE IF w.variant = "VecPmt"
         THEN LET rs == [n \in 1 .. Len(w.ps) |-> deserialize(w.ps[n], rev)]
              IN  IF FirstErr(rs) # 0 THEN rs[FirstErr(rs)]
                  ELSE Ok(PmtVec([n \in 1 .. Len(rs) |-> rs[n].v]))
    ELSE IF w.variant = "MapStrPmt"
         THEN LET rs == [n \in 1 .. Len(w.es) |-> deserialize(w.es[n].val, rev)]
                  m == [n \in 1 .. Len(rs) |-> Entry(w.es[n].key, rs[n].v)]
              IN  IF FirstErr(rs) # 0 THEN rs[FirstErr(rs)]
                  ELSE Ok(PmtMap(IF rev THEN Reverse(m) ELSE m))
    ELSE Ok(Pmt(w.variant, w.v))

\* What a reader can be handed that no writer of this process wrote: an
\* AnySerde under a tag with or without a registered decoder, alone and as
\* the element of a VecPmt.
Envelopes ==
    LET es == {WireTagged("AnySerde", [type |-> T, fields |-> x]) :
                  T \in Registry \cup {"Unregistered"}, x \in Unsigned}
    IN  es \cup {WireVec("VecPmt", <<e>>) : e \in es}

\* ------------------------------------------------------------------ state

VARIABLES
    live,       \* the sessions (blocks) of this run
    dev,        \* SoapyDevice::dev: "None" or "Some"
    chans,      \* SoapyDevice::chans
    init_cfg,   \* SoapyDevice::init_cfg: [dev, chans, config]
    stream,     \* SoapyDevice::stream: "None", "Created" or "Active"
    pc,         \* where each session's control is
    frame,      \* the locals of the session's current (or last) apply_config
    calls,      \* the device calls of the current (or last) handler, in order
    result,     \* what the last handler returned: "none", "Ok" or "Err"
    hw,         \* the device: the value each setting holds per (direction, channel)
    left,       \* items the run may still hand to the engine
    msg,        \* the Pmt the current (or last) port handler received
    soapy_init, \* SOAPY_INIT: "free" or the session that holds the lock
    val,        \* a Pmt an operation of futuresdr_pmt is applied to
    other,      \* the Pmt it is compared with
    op,         \* the operation applied last
    out         \* what that operation returned

\* The state of the blocks and the state of the Pmt operations.
soapy_vars == <<live, dev, chans, init_cfg, stream, pc, frame, calls, result, hw, left,
                msg, soapy_init>>
pmt_vars == <<val, other, op, out>>
vars == <<soapy_vars, pmt_vars>>

\* source.rs:61,125 and sink.rs:65,139: the direction the block passes down.
DefaultDir(s) == IF s = "source" THEN "Rx" ELSE "Tx"

\* SoapyDirection::is_rx(&self, default): Default defers to `default`.
is_rx(d, default) ==
    CASE d = "Rx" -> TRUE
      [] d = "Both" -> TRUE
      [] d = "Default" -> default \in {"Rx", "Both"}
      [] OTHER -> FALSE

\* SoapyDirection::is_tx(&self, default)
is_tx(d, default) ==
    CASE d = "Tx" -> TRUE
      [] d = "Both" -> TRUE
      [] d = "Default" -> default \in {"Tx", "Both"}
      [] OTHER -> FALSE

\* A resolution that falls back on the block's direction when the item's
\* direction resolves to neither Rx nor Tx.
update_dir_falls_back(d, default_dir) ==
    LET rx == is_rx(d, default_dir)
        tx == is_tx(d, default_dir)
    IN  CASE ~rx /\ tx -> <<"Tx">>
          [] rx /\ ~tx -> <<"Rx">>
          [] rx /\ tx -> <<"Rx", "Tx">>
          [] OTHER -> <<default_dir>>

\* The closure update_dir of apply_config.
update_dir(d, default_dir) ==
    LET rx == is_rx(d, default_dir)
        tx == is_tx(d, default_dir)
    IN  CASE ~rx /\ tx -> <<"Tx">>
          [] rx /\ ~tx -> <<"Rx">>
          [] rx /\ tx -> <<"Rx", "Tx">>
          [] OTHER -> <<>>

\* No operation of futuresdr_pmt under way.
NoPmtOp == val = Pmt("Null", 0) /\ other = Pmt("Null", 0) /\ op = "none" /\ out = Ok(0)

\* SoapySource::new / SoapySink::new: the channel list of a fresh session.
new_chans(init_chans) == IF init_chans = <<>> THEN <<0>> ELSE init_chans

\* The device before any setting call: every setting holds 0.
HwInit == [t \in SettingKinds \X Dirs \X Chans |-> 0]

\* The device after the successful calls of a trace, from h on.
RECURSIVE Replay(_, _)
Replay(h, tr) ==
    IF tr = <<>> THEN h
    ELSE LET c == Head(tr)
             h1 == IF c.ok THEN [h EXCEPT ![<<c.k, c.dir, c.chan>>] = c.v] ELSE h
         IN  Replay(h1, Tail(tr))

\* The locals of apply_config (cfg, whether the caller's sequence goes on
\* after the items in cfg (open), the loop position idx/di/ci, chans,
\* dir_flags, its return value res), who called it (by) and where control
\* goes when it returns (ret).  prev_chans/prev_dirs/hw0 are history: the
\* scope the previous application ended with and the device as this one
\* found it.
NoFrame ==
    [cfg |-> <<>>, open |-> FALSE, idx |-> 1, chans |-> <<>>, dir_flags |-> <<>>,
     di |-> 1, ci |-> 1, by |-> "none", ret |-> "new", res |-> "none",
     prev_chans |-> <<>>, prev_dirs |-> <<>>, hw0 |-> HwInit]

Init ==
    /\ \E s \in Sessions : live = {s}
    /\ dev = [s \in live |-> "None"]
    /\ \E cs \in BuilderCalls, ds \in DevSpecs :
          LET ic == build([dev |-> ds, chans |-> <<>>, config |-> <<>>, methods |-> <<>>], cs)
          IN  /\ init_cfg = [s \in live |-> ic]
              /\ chans = [s \in live |-> new_chans(ic.chans)]
              /\ left = IF cs = BuilderConfigCalls THEN 0 ELSE MaxItems - Len(ic.config)
    /\ stream = [s \in live |-> "None"]
    /\ pc = [s \in live |-> "new"]
    /\ frame = [s \in live |-> NoFrame]
    /\ calls = [s \in live |-> <<>>]
    /\ result = [s \in live |-> "none"]
    /\ hw = HwInit
    /\ msg = [s \in live |-> NoMsg]
    /\ soapy_init = "free"
    /\ NoPmtOp

\* ------------------------------------------------------------------ apply_config

\* A scope kept in the session: an application starts where the last one ended.
initial_scope_carried_over(f, self_chans, default_dir) ==
    [chans |-> IF f.prev_chans = <<>> THEN self_chans ELSE f.prev_chans,
     dir_flags |-> IF f.prev_dirs = <<>> THEN update_dir(default_dir, default_dir)
                   ELSE f.prev_dirs]

\* mod.rs:118-129: the scope an application starts with.
initial_scope(f, self_chans, default_dir) ==
    [chans |-> self_chans, dir_flags |-> update_dir(default_dir, default_dir)]

\* mod.rs:108-131: the prologue of apply_config with a device present.
enter_apply(s, cfg, open, by, ret) ==
    LET sc == initial_scope(frame[s], chans[s], DefaultDir(s))
    IN  [cfg |-> cfg, open |-> open, idx |-> 1, chans |-> sc.chans, dir_flags |-> sc.dir_flags,
         di |-> 1, ci |-> 1, by |-> by, ret |-> ret, res |-> "none",
         prev_chans |-> frame[s].prev_chans, prev_dirs |-> frame[s].prev_dirs,
         hw0 |-> hw]

\* The bail the TODO of mod.rs:113 considers.
no_device_result_bails == "Err"

\* mod.rs:110-116: what apply_config returns when the handle is absent.
no_device_result == "Ok"

\* Channel(None) that keeps the narrowing in force.
item_channel_none_keeps(item, cur_chans, self_chans) ==
    IF item.some THEN <<item.v>> ELSE cur_chans

\* Channel(Some(i)) that adds i to the active channels.
item_channel_some_adds(item, cur_chans, self_chans) ==
    IF item.some
    THEN (IF item.v \in {cur_chans[n] : n \in 1 .. Len(cur_chans)}
          THEN cur_chans ELSE Append(cur_chans, item.v))
    ELSE self_chans

\* mod.rs:149-154: SCI::Channel(chan).
item_channel(item, cur_chans, self_chans) ==
    IF item.some THEN <<item.v>> ELSE self_chans

\* Direction(d) that adds d's directions to those in force.
item_direction_adds(item, cur_dirs, default_dir) ==
    LET new == update_dir(item.d, default_dir)
        has(d) == d \in {cur_dirs[n] : n \in 1 .. Len(cur_dirs)}
                     \cup {new[n] : n \in 1 .. Len(new)}
    IN  (IF has("Rx") THEN <<"Rx">> ELSE <<>>) \o (IF has("Tx") THEN <<"Tx">> ELSE <<>>)

\* Direction(Default) resolved against the directions in force.
item_direction_default_keeps(item, cur_dirs, default_dir) ==
    IF item.d = "Default" THEN cur_dirs ELSE update_dir(item.d, default_dir)

\* mod.rs:155-157: SCI::Direction(d).
item_direction(item, cur_dirs, default_dir) == update_dir(item.d, default_dir)

\* A SampleRate item pinned to (Rx, 0), the other kinds on the loop's pair.
call_target_sample_rate_rx0(f) ==
    IF f.cfg[f.idx].k = "SampleRate"
    THEN [dir |-> "Rx", chan |-> 0]
    ELSE [dir |-> f.dir_flags[f.di], chan |-> f.chans[f.ci]]

\* mod.rs:135-181: the (direction, channel) of the device call the loops of a
\* setting item are at.
call_target(f) == [dir |-> f.dir_flags[f.di], chan |-> f.chans[f.ci]]

\* The inner loop left after its first channel.
after_call_first_chan_only(f) ==
    IF f.di < Len(f.dir_flags) THEN [f EXCEPT !.di = f.di + 1, !.ci = 1]
    ELSE [f EXCEPT !.idx = f.idx + 1, !.di = 1, !.ci = 1]

\* The loops nested the other way round: channels outermost.
after_call_channels_outermost(f) ==
    IF f.di < Len(f.dir_flags) THEN [f EXCEPT !.di = f.di + 1]
    ELSE IF f.ci < Len(f.chans) THEN [f EXCEPT !.ci = f.ci + 1, !.di = 1]
    ELSE [f EXCEPT !.idx = f.idx + 1, !.di = 1, !.ci = 1]

\* The nested `for d in dir_flags { for c in chans { .. } }`: the position after
\* a call that succeeded.
after_call(f) ==
    IF f.ci < Len(f.chans) THEN [f EXCEPT !.ci = f.ci + 1]
    ELSE IF f.di < Len(f.dir_flags) THEN [f EXCEPT !.di = f.di + 1, !.ci = 1]
    ELSE [f EXCEPT !.idx = f.idx + 1, !.di = 1, !.ci = 1]

\* A failed call that puts the device back as the application found it.
after_failure_rolls_back(h, f) == f.hw0

\* The `?` on a device call: what a failed call leaves of the device.
after_failure(h, f) == h

\* A handler that logs the error of apply_config and replies Null.
cmd_result_swallows(res) == "Ok"

\* mod.rs:55-56, 66-67: `self.apply_config(..)?; return Ok(Pmt::Null);` what
\* base_cmd_handler returns for the result res of apply_config.
cmd_result(res) == res

\* An init that fails when its initial sequence does.
error_return_init_fails(f) == IF f.by = "init" THEN "failed" ELSE f.ret

\* mod.rs:135-181, source.rs:125-127, sink.rs:139-141: the `?` of a failed
\* call leaves apply_config for its caller, and the caller goes on where it
\* would after Ok(()): init logs the error and goes on to its stream.
error_return(f) == f.ret

\* A Channel(Some(i)) that narrows the channel list of the session itself.
self_chans_after_item_narrowed(item, self_chans) ==
    IF item.k = "Channel" /\ item.some THEN <<item.v>> ELSE self_chans

\* mod.rs:118, 149-157: the items assign to the locals `chans` and `dir_flags`;
\* self.chans is read (cloned) only.  What an item leaves of self.chans.
self_chans_after_item(item, self_chans) == self_chans

\* A scope kept with the device: an item changes it for every session on the
\* handle.
scope_of_item_on_handle(s) == live

\* mod.rs:118, 129: `let mut chans`, `let mut dir_flags` are locals of the call
\* of apply_config.  The sessions whose scope an item of s changes.
scope_of_item(s) == {s}

InLoop(s) == pc[s] = "apply" /\ frame[s].idx <= Len(frame[s].cfg)
CurItem(s) == frame[s].cfg[frame[s].idx]

\* One iteration of `for ci in &cfg.0` on a Channel or Direction item.
apply_scope_item(s) ==
    /\ s \in live
    /\ InLoop(s)
    /\ CurItem(s).k \in {"Channel", "Direction"}
    /\ LET f == frame[s]
           it == CurItem(s)
           scoped(g) ==
              IF it.k = "Channel"
              THEN [g EXCEPT !.chans = item_channel(it, f.chans, chans[s])]
              ELSE [g EXCEPT !.dir_flags = item_direction(it, f.dir_flags, DefaultDir(s))]
       IN  frame' = [t \in live |->
              LET g == IF t \in scope_of_item(s) THEN scoped(frame[t]) ELSE frame[t]
              IN  IF t = s THEN [g EXCEPT !.idx = f.idx + 1] ELSE g]
    /\ chans' = [chans EXCEPT ![s] = self_chans_after_item(CurItem(s), @)]
    /\ UNCHANGED <<pmt_vars, live, dev, init_cfg, stream, pc, calls, result, hw, left, msg, soapy_init>>

\* A setting item whose loops have nothing to visit.
apply_empty_item(s) ==
    /\ s \in live
    /\ InLoop(s)
    /\ CurItem(s).k \in SettingKinds
    /\ (frame[s].dir_flags = <<>> \/ frame[s].chans = <<>>)
    /\ frame' = [frame EXCEPT ![s].idx = frame[s].idx + 1]
    /\ UNCHANGED <<pmt_vars, live, dev, chans, init_cfg, stream, pc, calls, result, hw, left, msg, soapy_init>>

\* One device call of a setting item: dev.set_*(d, c, value)?
device_call(s) ==
    /\ s \in live
    /\ InLoop(s)
    /\ CurItem(s).k \in SettingKinds
    /\ frame[s].dir_flags # <<>> /\ frame[s].chans # <<>>
    /\ LET f == frame[s]
           it == CurItem(s)
           t == call_target(f)
       IN  \E ok \in BOOLEAN :
             /\ calls' = [calls EXCEPT ![s] = Append(@,
                   [item |-> f.idx, k |-> it.k, dir |-> t.dir, chan |-> t.chan,
                    v |-> it.v, ok |-> ok])]
             /\ IF ok
                THEN /\ hw' = [hw EXCEPT ![<<it.k, t.dir, t.chan>>] = it.v]
                     /\ frame' = [frame EXCEPT ![s] = after_call(f)]
                     /\ UNCHANGED <<pc, result>>
                ELSE /\ hw' = after_failure(hw, f)
                     /\ frame' = [frame EXCEPT ![s].res = "Err"]
                     /\ pc' = [pc EXCEPT ![s] = error_return(f)]
                     /\ result' = [result EXCEPT ![s] =
                                       IF f.by = "cmd" THEN cmd_result("Err") ELSE @]
    /\ UNCHANGED <<pmt_vars, live, dev, chans, init_cfg, stream, left, msg, soapy_init>>

\* `for ci in &cfg.0`: the loop reaches the next item of the caller's sequence.
next_item(s) ==
    /\ s \in live
    /\ pc[s] = "apply"
    /\ frame[s].open
    /\ frame[s].idx > Len(frame[s].cfg)
    /\ left > 0
    /\ \E it \in Items(MaxItems - left + 1) :
          frame' = [frame EXCEPT ![s].cfg = Append(@, it)]
    /\ left' = left - 1
    /\ UNCHANGED <<pmt_vars, live, dev, chans, init_cfg, stream, pc, calls, result, hw, msg, soapy_init>>

\* mod.rs:184: the loop is over, Ok(()).
apply_return(s) ==
    /\ s \in live
    /\ pc[s] = "apply"
    /\ frame[s].idx > Len(frame[s].cfg)
    /\ frame' = [frame EXCEPT ![s].res = "Ok", ![s].open = FALSE]
    /\ pc' = [pc EXCEPT ![s] = frame[s].ret]
    /\ result' = [result EXCEPT ![s] = IF frame[s].by = "cmd" THEN cmd_result("Ok") ELSE @]
    /\ UNCHANGED <<pmt_vars, live, dev, chans, init_cfg, stream, calls, hw, left, msg, soapy_init>>

\* ------------------------------------------------------------------ cmd port

\* What is left of a frame once its handler is back in the caller: the locals
\* are gone; the scope the application ended with is kept as history.
popped(f) == [NoFrame EXCEPT !.prev_chans = f.chans, !.prev_dirs = f.dir_flags]

\* A handler runs when no other handler of the block does; a block whose init
\* failed is never run again.
Idle(s) == pc[s] \in {"new", "ready"}

\* What a caller can send to the cmd port: an Any holding a SoapyConfig whose
\* items the model draws one by one and, to a run of one block that has its
\* whole budget left, an Any holding a named sequence (as a SoapyConfig or as a
\* SoapyCommand::Config), a map of up to n pairs, or a value that resolves to
\* nothing.
CmdMsgs(budget, n) ==
    {Msg("cmd", "AnyConfig", 0, <<>>, <<>>, TRUE)}
        \cup IF budget < MaxItems THEN {}
             ELSE {Msg("cmd", t, 0, <<>>, c, FALSE) :
                      t \in {"AnyConfig", "AnyCommandConfig"}, c \in NamedSeqs}
                  \cup {Msg("cmd", "MapStrPmt", 0, m, <<>>, FALSE) : m \in Maps(n, 1)}
                  \cup {Msg("cmd", p.t, p.v, <<>>, <<>>, FALSE) : p \in RejectedPmts}

\* What a message takes of the budget l of the run: a named sequence and a map
\* take all of it.
Cost(m, l) == IF m.cfg # <<>> \/ m.entries # <<>> THEN l ELSE 0

\* on_cmd_port -> base_cmd_handler: the Pmt is resolved to a configuration
\* (mod.rs:51-64) and the configuration is handed to apply_config (mod.rs:55,66),
\* whose prologue returns at once when the handle is absent.  A block that has
\* no handle is a block before its init: it stays where it is.
on_cmd_port(s) ==
    /\ s \in live
    /\ Idle(s)
    /\ calls' = [calls EXCEPT ![s] = <<>>]
    /\ \E m \in CmdMsgs(IF live = {s} THEN left ELSE 0,
                        IF dev[s] = "None" THEN 1 ELSE MaxItems) :
          /\ msg' = [msg EXCEPT ![s] = m]
          /\ LET r == resolve(m) IN
             CASE dev[s] = "None" ->
                    /\ result' = [result EXCEPT ![s] =
                                      IF r.ok THEN cmd_result(no_device_result) ELSE "Err"]
                    /\ UNCHANGED <<pc, frame, left>>
               [] dev[s] # "None" /\ ~r.ok ->
                    /\ result' = [result EXCEPT ![s] = "Err"]
                    /\ pc' = [pc EXCEPT ![s] = "returned"]
                    /\ left' = left - Cost(m, left)
                    /\ UNCHANGED frame
               [] OTHER ->
                    /\ frame' = [frame EXCEPT ![s] =
                          enter_apply(s, r.cfg, m.open, "cmd", "returned")]
                    /\ left' = left - Cost(m, left)
                    /\ pc' = [pc EXCEPT ![s] = "apply"]
                    /\ result' = [result EXCEPT ![s] = "none"]
    /\ UNCHANGED <<pmt_vars, live, dev, chans, init_cfg, stream, hw, soapy_init>>

\* The handler of a port hands its result to the caller (Pmt::Null or the
\* error) and the block waits for its next message.
cmd_reply(s) ==
    /\ s \in live
    /\ pc[s] = "returned"
    /\ pc' = [pc EXCEPT ![s] = "ready"]
    /\ frame' = [frame EXCEPT ![s] = IF @.by = "none" THEN @ ELSE popped(@)]
    /\ calls' = [calls EXCEPT ![s] = <<>>]
    /\ msg' = [msg EXCEPT ![s] = NoMsg]
    /\ UNCHANGED <<pmt_vars, live, dev, chans, init_cfg, stream, result, hw, left, soapy_init>>

\* ------------------------------------------------------------------ freq, sample_rate ports

\* Legacy handlers that set both directions of the device.
legacy_dirs_both(default_dir) == <<"Rx", "Tx">>

\* mod.rs:80-85, 96-101: the directions the legacy handlers call, in order.
legacy_dirs(default_dir) ==
    (IF is_rx(default_dir, "None") THEN <<"Rx">> ELSE <<>>)
        \o (IF is_tx(default_dir, "None") THEN <<"Tx">> ELSE <<>>)

\* Legacy handlers that report success without a handle, as apply_config does.
legacy_no_device_result_ok == "Ok"

\* mod.rs:76, 92: `self.dev.as_mut().context("no dev")?`, the first statement
\* of set_freq and of set_sample_rate.
legacy_no_device_result == "Err"

\* What a caller sends to the legacy ports: a float, an integer, a string.
LegacyPmts(v) == {Pmt("F64", v), Pmt("U32", v), Pmt("String", v)}

\* mod.rs:75-87 (set_freq) and mod.rs:91-103 (set_sample_rate): "no dev" without
\* a handle, then the coercion of the value, then one call on channel 0 for
\* each direction of legacy_dirs, up to the first that fails.  The ports take
\* a message from a run that has its whole budget left.
legacy_set(s, port, kind) ==
    /\ left = MaxItems
    /\ \E p \in LegacyPmts(1) :
          /\ msg' = [msg EXCEPT ![s] = Msg(port, p.t, p.v, <<>>, <<>>, FALSE)]
          /\ CASE dev[s] = "None" ->
                    /\ result' = [result EXCEPT ![s] = legacy_no_device_result]
                    /\ calls' = [calls EXCEPT ![s] = <<>>]
                    /\ UNCHANGED <<hw, left, pc>>
               [] dev[s] # "None" /\ ~pmt_to_f64(p).ok ->
                    /\ result' = [result EXCEPT ![s] = "Err"]
                    /\ calls' = [calls EXCEPT ![s] = <<>>]
                    /\ pc' = [pc EXCEPT ![s] = "returned"]
                    /\ UNCHANGED <<hw, left>>
               [] OTHER ->
                    /\ left' = left - 1
                    /\ pc' = [pc EXCEPT ![s] = "returned"]
                    /\ LET ds == legacy_dirs(DefaultDir(s)) IN
                       \E fail \in 0 .. Len(ds) :
                          LET tr == [n \in 1 .. (IF fail = 0 THEN Len(ds) ELSE fail) |->
                                       [item |-> 0, k |-> kind, dir |-> ds[n], chan |-> 0,
                                        v |-> pmt_to_f64(p).v, ok |-> n # fail]]
                          IN  /\ calls' = [calls EXCEPT ![s] = tr]
                              /\ hw' = Replay(hw, tr)
                              /\ result' = [result EXCEPT ![s] =
                                                IF fail = 0 THEN "Ok" ELSE "Err"]
    /\ UNCHANGED <<pmt_vars, live, dev, chans, init_cfg, stream, frame, soapy_init>>

\* source.rs:66-73, sink.rs:70-77
on_freq_port(s) ==
    /\ s \in live
    /\ Idle(s)
    /\ legacy_set(s, "freq", "Freq")

\* source.rs:77-84, sink.rs:81-88
on_sample_rate_port(s) ==
    /\ s \in live
    /\ Idle(s)
    /\ legacy_set(s, "sample_rate", "SampleRate")

\* ------------------------------------------------------------------ init

\* The initial sequence applied before the channel list is stored.
init_order_apply_first == <<"init_apply", "init_chans", "init_stream">>

\* The stream created before the initial sequence is applied.
init_order_stream_first == <<"init_chans", "init_stream", "init_apply">>

\* The statements of init that follow the acquisition of the handle, in program
\* order: mod.rs:207 (the channel list), mod.rs:208 (the initial sequence),
\* source.rs:129-139 (the stream).
init_order == <<"init_chans", "init_apply", "init_stream">>
step_after(x) ==
    LET i == CHOOSE j \in 1 .. Len(init_order) : init_order[j] = x
    IN  init_order[i + 1]

\* source.rs:123: the effect of the statement `let _ = SOAPY_INIT.lock();` on
\* the mutex g when session s runs it: none.
lock_statement(g, s) == g

\* source.rs:123-124, sink.rs:137-138: `let _ = SOAPY_INIT.lock();` builds the
\* future of the lock and drops it at the end of the statement, unpolled: the
\* mutex is not acquired.  Control then enters soapysdr::configure_logging().
init(s) ==
    /\ s \in live
    /\ pc[s] = "new"
    /\ soapy_init' = lock_statement(soapy_init, s)
    /\ pc' = [pc EXCEPT ![s] = "configure_logging"]
    /\ calls' = [calls EXCEPT ![s] = <<>>]
    /\ result' = [result EXCEPT ![s] = "none"]
    /\ msg' = [msg EXCEPT ![s] = NoMsg]
    /\ UNCHANGED <<pmt_vars, live, dev, chans, init_cfg, stream, frame, hw, left>>

\* source.rs:124-125, mod.rs:188-206: configure_logging returns and
\* apply_init_config runs up to the acquisition of the handle.  A Filter lookup
\* (soapysdr::Device::new) may fail: apply_init_config bails, init logs the
\* error and goes on to its stream part.
init_acquire(s) ==
    /\ s \in live
    /\ pc[s] = "configure_logging"
    /\ soapy_init' = IF soapy_init = s THEN "free" ELSE soapy_init
    /\ \E found \in BOOLEAN :
         IF init_cfg[s].dev = "Dev" \/ found
         THEN /\ dev' = [dev EXCEPT ![s] = "Some"]
              /\ pc' = [pc EXCEPT ![s] = init_order[1]]
         ELSE /\ pc' = [pc EXCEPT ![s] = "init_stream"]
              /\ UNCHANGED dev
    /\ UNCHANGED <<pmt_vars, live, chans, init_cfg, stream, frame, calls, result, hw, left, msg>>

\* mod.rs:207
init_chans(s) ==
    /\ s \in live
    /\ pc[s] = "init_chans"
    /\ chans' = [chans EXCEPT ![s] = init_cfg[s].chans]
    /\ pc' = [pc EXCEPT ![s] = step_after("init_chans")]
    /\ UNCHANGED <<pmt_vars, live, dev, init_cfg, stream, frame, calls, result, hw, left, msg, soapy_init>>

\* mod.rs:208: self.apply_config(&cfg.config, default_dir)
init_apply(s) ==
    /\ s \in live
    /\ pc[s] = "init_apply"
    /\ frame' = [frame EXCEPT ![s] =
          enter_apply(s, init_cfg[s].config, FALSE, "init", step_after("init_apply"))]
    /\ pc' = [pc EXCEPT ![s] = "apply"]
    /\ UNCHANGED <<pmt_vars, live, dev, chans, init_cfg, stream, calls, result, hw, left, msg, soapy_init>>

\* An init that goes on without a handle as it does after a failed sequence.
init_without_dev_goes_on == [result |-> "Ok", pc |-> "ready"]

\* source.rs:129, sink.rs:143: self.dev.as_ref().context("no dev")?
init_without_dev == [result |-> "Err", pc |-> "failed"]

\* source.rs:129-139, sink.rs:143-153: the stream is created and activated;
\* either call may fail, and without a handle init fails with "no dev".
init_stream(s) ==
    /\ s \in live
    /\ pc[s] = "init_stream"
    /\ IF dev[s] = "None"
       THEN /\ result' = [result EXCEPT ![s] = init_without_dev.result]
            /\ pc' = [pc EXCEPT ![s] = init_without_dev.pc]
            /\ UNCHANGED stream
       ELSE \E st \in {"None", "Created", "Active"} :
            /\ stream' = [stream EXCEPT ![s] = st]
            /\ result' = [result EXCEPT ![s] = IF st = "Active" THEN "Ok" ELSE "Err"]
            /\ pc' = [pc EXCEPT ![s] = IF st = "Active" THEN "ready" ELSE "failed"]
    /\ frame' = [frame EXCEPT ![s] = IF @.by = "init" THEN popped(@) ELSE @]
    /\ calls' = [calls EXCEPT ![s] = <<>>]
    /\ UNCHANGED <<pmt_vars, live, dev, chans, init_cfg, hw, left, msg, soapy_init>>

\* A deinit that drops the handle.
deinit_handle_dropped(d) == "None"

\* source.rs:148-152: deinit touches the stream only; the handle stays.
deinit_handle(d) == d

\* source.rs:142-153, sink.rs:156-167: the stream is deactivated (which may
\* fail); the block has stopped.
deinit(s) ==
    /\ s \in live
    /\ pc[s] = "ready"
    /\ \E ok \in BOOLEAN :
          /\ stream' = [stream EXCEPT ![s] = IF ok THEN "Created" ELSE @]
          /\ result' = [result EXCEPT ![s] = IF ok THEN "Ok" ELSE "Err"]
    /\ dev' = [dev EXCEPT ![s] = deinit_handle(@)]
    /\ pc' = [pc EXCEPT ![s] = "stopped"]
    /\ calls' = [calls EXCEPT ![s] = <<>>]
    /\ msg' = [msg EXCEPT ![s] = NoMsg]
    /\ UNCHANGED <<pmt_vars, live, chans, init_cfg, frame, hw, left, soapy_init>>

Next ==
    \E s \in Sessions :
        \/ init(s)
        \/ init_acquire(s)
        \/ init_chans(s)
        \/ init_apply(s)
        \/ init_stream(s)
        \/ deinit(s)
        \/ on_cmd_port(s)
        \/ on_freq_port(s)
        \/ on_sample_rate_port(s)
        \/ cmd_reply(s)
        \/ apply_scope_item(s)
        \/ apply_empty_item(s)
        \/ device_call(s)
        \/ next_item(s)
        \/ apply_return(s)

Spec == Init /\ [][Next]_vars

\* A flowgraph with a source and a sink built on one device
\* (examples/soapy_multichan.rs:33-53, tests/soapy.rs:133-153).  Both blocks
\* are blocking(): each runs its init and its handlers in a thread of its own,
\* and the steps of the two interleave.
SharedChans == {<<0, 1>>}

InitShared ==
    /\ live = Sessions
    /\ dev = [s \in live |-> "None"]
    /\ \E ic \in SharedChans :
          /\ init_cfg = [s \in live |->
                build([dev |-> "Dev", chans |-> <<>>, config |-> <<>>, methods |-> <<>>],
                      [n \in 1 .. Len(ic) |-> BuilderCall("channel", ic[n])])]
          /\ chans = [s \in live |-> new_chans(ic)]
    /\ left = MaxItems
    /\ stream = [s \in live |-> "None"]
    /\ pc = [s \in live |-> "new"]
    /\ frame = [s \in live |-> NoFrame]
    /\ calls = [s \in live |-> <<>>]
    /\ result = [s \in live |-> "none"]
    /\ hw = HwInit
    /\ msg = [s \in live |-> NoMsg]
    /\ soapy_init = "free"
    /\ NoPmtOp

\* The two blocks are started and take sequences on their cmd ports.
NextShared ==
    \E s \in Sessions :
        \/ init(s)
        \/ init_acquire(s)
        \/ init_chans(s)
        \/ init_apply(s)
        \/ init_stream(s)
        \/ on_cmd_port(s)
        \/ cmd_reply(s)
        \/ apply_scope_item(s)
        \/ apply_empty_item(s)
        \/ device_call(s)
        \/ next_item(s)
        \/ apply_return(s)

SpecShared == InitShared /\ [][NextShared]_vars

\* ------------------------------------------------------------------ Pmt operations

\* The operations of futuresdr_pmt and the coercions of config.rs applied to
\* values, as lib.rs:187-316 and the handlers of the blocks apply them: one
\* operation on the values of a run, and the reading back of what was written.

\* What val is compared with: itself, the flat values and, for a map, the
\* same pairs in the other order.
Others(p) ==
    {p} \cup FlatPmts \cup (IF p.t = "MapStrPmt" THEN {PmtMap(Reverse(p.es))} ELSE {})

InitPmt ==
    /\ live = {}
    /\ dev = <<>> /\ chans = <<>> /\ init_cfg = <<>> /\ stream = <<>> /\ pc = <<>>
    /\ frame = <<>> /\ calls = <<>> /\ result = <<>> /\ msg = <<>>
    /\ hw = HwInit
    /\ left = 0
    /\ soapy_init = "free"
    /\ val \in PmtValues(MaxDepth)
    /\ other \in Others(val)
    /\ op = "none"
    /\ out = Ok(0)

\* config.rs:7-16
coerce_f64 ==
    /\ op = "none"
    /\ op' = "pmt_to_f64"
    /\ out' = pmt_to_f64(val)
    /\ UNCHANGED <<soapy_vars, val, other>>

\* config.rs:19-28
coerce_usize ==
    /\ op = "none"
    /\ op' = "pmt_to_usize"
    /\ out' = pmt_to_usize(val)
    /\ UNCHANGED <<soapy_vars, val, other>>

\* lib.rs:98-116, 255-276: val == b, for b another value, val itself or its clone.
compare ==
    /\ op = "none"
    /\ \E b \in {other, val, clone(val)} :
          /\ other' = b
          /\ out' = eq(val, b)
    /\ op' = "eq"
    /\ UNCHANGED <<soapy_vars, val>>

\* lib.rs:26-33, 70-77, 243: downcast_ref::<T>() on the payload of a box.
downcast ==
    /\ op = "none"
    /\ val.t \in OpaqueTypes
    /\ \E T \in PayloadTypes : out' = [T |-> T, r |-> downcast_ref(val, T)]
    /\ op' = "downcast_ref"
    /\ UNCHANGED <<soapy_vars, val, other>>

\* The message the cmd port handler has in hand when it is sent p: an Any by
\* the type it downcasts to, a map by its pairs.
as_msg(p) ==
    LET t == IF p.t # "Any" THEN p.t
             ELSE IF p.b.type = "SoapyConfig" THEN "AnyConfig"
             ELSE IF p.b.type = "SoapyCommand" THEN "AnyCommandConfig"
             ELSE "AnyOther"
    IN  Msg("cmd", t, 0, IF p.t = "MapStrPmt" THEN p.es ELSE <<>>, <<>>, FALSE)

\* config.rs:137-166: SoapyConfig::try_from(val)
convert ==
    /\ op = "none"
    /\ op' = "try_from"
    /\ out' = try_from(as_msg(val))
    /\ UNCHANGED <<soapy_vars, val, other>>

\* lib.rs:200-201, 237: val.serialize(..)
write ==
    /\ op = "none"
    /\ op' = "serialize"
    /\ out' = serialize(val)
    /\ UNCHANGED <<soapy_vars, val, other>>

\* lib.rs:203-204, 239: Pmt::deserialize(..) of what was just written.
read_back ==
    /\ op = "serialize"
    /\ out.ok
    /\ \E rev \in BOOLEAN : out' = deserialize(out.v, rev)
    /\ op' = "round_trip"
    /\ UNCHANGED <<soapy_vars, val, other>>

\* Pmt::deserialize(..) of what another process wrote.
read ==
    /\ op = "none"
    /\ \E w \in Envelopes : out' = [wire |-> w, r |-> deserialize(w, FALSE)]
    /\ op' = "deserialize"
    /\ UNCHANGED <<soapy_vars, val, other>>

NextPmt ==
    \/ coerce_f64
    \/ coerce_usize
    \/ compare
    \/ downcast
    \/ convert
    \/ write
    \/ read_back
    \/ read

SpecPmt == InitPmt /\ [][NextPmt]_vars

\* ------------------------------------------------------------------ properties

\* What the properties are stated with: the scope an item of a sequence is
\* processed in, read off the sequence alone (the last Channel and the last
\* Direction item before it), and the calls an item is to issue in that scope.

Max(S) == CHOOSE x \in S : \A y \in S : y <= x
Range(q) == {q[n] : n \in 1 .. Len(q)}

\* In an application: its frame is live (the prologue has run, the handler has
\* not yet replied).
Applying(s) == s \in live /\ frame[s].by # "none"
\* The application is over and returned Ok(()).
AppliedOk(s) == Applying(s) /\ frame[s].res = "Ok"

DirTable(d, s) ==
    CASE d = "Default" -> <<DefaultDir(s)>>
      [] d = "Rx" -> <<"Rx">>
      [] d = "Tx" -> <<"Tx">>
      [] d = "Both" -> <<"Rx", "Tx">>
      [] d = "None" -> <<>>

LastOf(cfg, i, kind) ==
    LET js == {j \in 1 .. i - 1 : cfg[j].k = kind}
    IN  IF js = {} THEN 0 ELSE Max(js)

ScopeChansAt(cfg, i, s) ==
    LET j == LastOf(cfg, i, "Channel")
    IN  IF j # 0 /\ cfg[j].some THEN <<cfg[j].v>> ELSE chans[s]

ScopeDirsAt(cfg, i, s) ==
    LET j == LastOf(cfg, i, "Direction")
    IN  IF j = 0 THEN <<DefaultDir(s)>> ELSE DirTable(cfg[j].d, s)

\* One call per pair, directions outermost, both in list order.
ExpectedCalls(cfg, i, s) ==
    LET ds == ScopeDirsAt(cfg, i, s)
        cs == ScopeChansAt(cfg, i, s)
    IN  [n \in 1 .. Len(ds) * Len(cs) |->
            [item |-> i, k |-> cfg[i].k,
             dir |-> ds[((n - 1) \div Len(cs)) + 1],
             chan |-> cs[((n - 1) % Len(cs)) + 1],
             v |-> cfg[i].v, ok |-> TRUE]]

CallsOfItem(s, i) == SelectSeq(calls[s], LAMBDA c : c.item = i)

\* The items the loop has left behind.
Processed(s) == 1 .. frame[s].idx - 1

\* C1 (as stated): a SampleRate item issues exactly one device call,
\* set_sample_rate(Rx, 0, v), whatever the active scope; never a call for Tx or
\* for a channel other than 0.
C1_SampleRateAlwaysRx0 ==
    \A s \in live :
        /\ \A c \in Range(calls[s]) :
              c.k = "SampleRate" => c.dir = "Rx" /\ c.chan = 0
        /\ Applying(s) =>
              \A i \in Processed(s) :
                  frame[s].cfg[i].k = "SampleRate" => Len(CallsOfItem(s, i)) = 1

\* C1 (amended): a SampleRate item follows the active scope like the other
\* settings: it issues one set_sample_rate(d, c, v) for every pair of the active
\* directions and the active channels at its position, in loop order, and no
\* other call; [Channel(Some(1)), Direction(Tx), SampleRate(2)] issues exactly
\* set_sample_rate(Tx, 1, 2).
C1_SampleRateFollowsScope ==
    \A s \in live :
        Applying(s) =>
            /\ \A i \in Processed(s) :
                  frame[s].cfg[i].k = "SampleRate" =>
                      CallsOfItem(s, i) = ExpectedCalls(frame[s].cfg, i, s)
            /\ (AppliedOk(s) /\ frame[s].cfg = SampleRateScopeSeq) =>
                  calls[s] = << [item |-> 3, k |-> "SampleRate", dir |-> "Tx",
                                 chan |-> 1, v |-> 2, ok |-> TRUE] >>

C1_Witness ==
    \E s \in live :
        /\ AppliedOk(s)
        /\ frame[s].cfg = SampleRateScopeSeq
        /\ Len(calls[s]) = 1

\* The Channel item, if any, that governs item i: the last one before it.
GoverningChannel(cfg, i) == LastOf(cfg, i, "Channel")

Call(i, k, d, c, v) == [item |-> i, k |-> k, dir |-> d, chan |-> c, v |-> v, ok |-> TRUE]

\* C2: Channel(None) resets the active channels to exactly the session's channel
\* list: right after the item the active list is the session's, every item it
\* governs calls each session channel and no other, and ChannelResetSeq on a
\* 2-channel session issues gain 2 to channel 1 only, then gain 3 to channels 0
\* and 1.
C2_ChannelNoneResets ==
    \A s \in live :
        Applying(s) =>
            LET f == frame[s] IN
            /\ (f.idx > 1 /\ f.cfg[f.idx - 1] = Channel(FALSE, 0)) => f.chans = chans[s]
            /\ \A i \in Processed(s) :
                  LET g == GoverningChannel(f.cfg, i) IN
                  (g # 0 /\ ~f.cfg[g].some /\ f.cfg[i].k \in SettingKinds
                        /\ ScopeDirsAt(f.cfg, i, s) # <<>>) =>
                      {c.chan : c \in Range(CallsOfItem(s, i))} = Range(chans[s])
            /\ (AppliedOk(s) /\ f.cfg = ChannelResetSeq /\ chans[s] = <<0, 1>>) =>
                  LET d == DefaultDir(s) IN
                  calls[s] = << Call(2, "Gain", d, 1, 2),
                                Call(4, "Gain", d, 0, 3), Call(4, "Gain", d, 1, 3) >>

C2_Witness ==
    \E s \in live :
        /\ AppliedOk(s)
        /\ frame[s].cfg = ChannelResetSeq
        /\ chans[s] = <<0, 1>>
        /\ Len(calls[s]) = 3

\* C3: after Channel(Some(i)) the active channels are exactly <<i>>: every call
\* of an item governed by Channel(Some(i)) is for channel i, whatever the
\* active channels were before.
C3_ChannelSomeNarrows ==
    \A s \in live :
        Applying(s) =>
            LET f == frame[s] IN
            /\ (f.idx > 1 /\ f.cfg[f.idx - 1].k = "Channel" /\ f.cfg[f.idx - 1].some) =>
                  f.chans = <<f.cfg[f.idx - 1].v>>
            /\ \A c \in Range(calls[s]) :
                  LET g == GoverningChannel(f.cfg, c.item) IN
                  (g # 0 /\ f.cfg[g].some) => c.chan = f.cfg[g].v

\* A call governed by Channel(Some(i)), on a session of two channels.
C3_Witness ==
    \E s \in live :
        /\ Applying(s)
        /\ Len(chans[s]) = 2
        /\ \E c \in Range(calls[s]) :
              LET g == GoverningChannel(frame[s].cfg, c.item) IN
              g # 0 /\ frame[s].cfg[g].some /\ c.ok

\* C4: a Direction(d) item sets the active directions to a function of d and
\* of the block's default only: Default -> the block default, Rx -> <<Rx>>,
\* Tx -> <<Tx>>, Both -> <<Rx, Tx>>, None -> <<>>, whatever was in force.
C4_DirectionResolves ==
    \A s \in live :
        Applying(s) =>
            LET f == frame[s] IN
            (f.idx > 1 /\ f.cfg[f.idx - 1].k = "Direction") =>
                f.dir_flags = DirTable(f.cfg[f.idx - 1].d, s)

\* Direction(Default) right after Direction(Both).
C4_Witness ==
    \E s \in live :
        /\ Applying(s)
        /\ frame[s].idx = 3
        /\ frame[s].cfg[1] = Direction("Both")
        /\ frame[s].cfg[2] = Direction("Default")
        /\ frame[s].dir_flags = <<DefaultDir(s)>>

\* C5: an Antenna, Bandwidth, Freq or Gain item issues exactly one call of its
\* kind for every pair of (active directions x active channels), directions
\* outermost, and no other; calls are issued in item order, none is left for
\* later (every call belongs to an item the loop has reached, and its value is
\* on the device as soon as it has succeeded).
C5_FanOutInOrder ==
    \A s \in live :
        Applying(s) =>
            LET f == frame[s] IN
            /\ \A i \in Processed(s) :
                  f.cfg[i].k \in {"Antenna", "Bandwidth", "Freq", "Gain"} =>
                      CallsOfItem(s, i) = ExpectedCalls(f.cfg, i, s)
            /\ \A n \in 1 .. Len(calls[s]) :
                  /\ calls[s][n].item <= f.idx
                  /\ calls[s][n].item <= Len(f.cfg)
                  /\ calls[s][n].k = f.cfg[calls[s][n].item].k
                  /\ n > 1 => calls[s][n - 1].item <= calls[s][n].item
            /\ \A i \in Processed(s) :
                  f.cfg[i].k \in {"Channel", "Direction"} => CallsOfItem(s, i) = <<>>
            /\ (calls[s] # <<>> /\ calls[s][Len(calls[s])].ok) =>
                  LET c == calls[s][Len(calls[s])] IN hw[<<c.k, c.dir, c.chan>>] = c.v

\* An item that fanned out over two directions and two channels, and a later
\* item that has also issued a call.
C5_Witness ==
    \E s \in live :
        /\ Applying(s)
        /\ \E i \in Processed(s) :
              /\ frame[s].cfg[i].k \in {"Antenna", "Bandwidth", "Freq", "Gain"}
              /\ Len(CallsOfItem(s, i)) = 4
              /\ \E c \in Range(calls[s]) : c.item > i

\* The pairs item i of cfg has in scope.
InScope(cfg, i, s, d, c) ==
    /\ d \in Range(ScopeDirsAt(cfg, i, s))
    /\ c \in Range(ScopeChansAt(cfg, i, s))

\* C6: after a sequence is applied without failure, every setting kind holds,
\* for every (direction, channel), the value of the last item of that kind that
\* had the pair in scope, and its previous value where no item had; the
\* multichannel sequence of the tests leaves gain Rx0 = 2, Rx1 = 3, Tx0 = 2,
\* Tx1 = 1 and frequency Rx = 90, Tx = 100 on both channels.
C6_LastInScopeWins ==
    \A s \in live :
        AppliedOk(s) =>
            LET f == frame[s] IN
            /\ \A t \in DOMAIN hw :
                  LET js == {i \in 1 .. Len(f.cfg) :
                                f.cfg[i].k = t[1] /\ InScope(f.cfg, i, s, t[2], t[3])}
                  IN  hw[t] = IF js = {} THEN f.hw0[t] ELSE f.cfg[Max(js)].v
            /\ (f.cfg = MultichanSeq /\ chans[s] = <<0, 1>>) =>
                  /\ hw[<<"Gain", "Rx", 0>>] = 2 /\ hw[<<"Gain", "Rx", 1>>] = 3
                  /\ hw[<<"Gain", "Tx", 0>>] = 2 /\ hw[<<"Gain", "Tx", 1>>] = 1
                  /\ hw[<<"Freq", "Rx", 0>>] = 90 /\ hw[<<"Freq", "Rx", 1>>] = 90
                  /\ hw[<<"Freq", "Tx", 0>>] = 100 /\ hw[<<"Freq", "Tx", 1>>] = 100

\* The multichannel sequence applied by the sink on channels 0 and 1.
C6_Witness ==
    /\ "sink" \in live
    /\ AppliedOk("sink")
    /\ frame["sink"].cfg = MultichanSeq
    /\ chans["sink"] = <<0, 1>>

\* C7: a failing device call is the last call of its sequence, the application
\* returns the error at once, and what the earlier calls set stays on the
\* device (nothing is rolled back).
C7_FailureStopsNoRollback ==
    \A s \in live :
        Applying(s) =>
            LET f == frame[s]
                n == Len(calls[s])
            IN  /\ \A m \in 1 .. n - 1 : calls[s][m].ok
                /\ (f.res = "Err") <=> (n > 0 /\ ~calls[s][n].ok)
                /\ (f.res = "Err") =>
                      /\ pc[s] = f.ret
                      /\ f.by = "cmd" => result[s] = "Err"
                      /\ calls[s][n].item = f.idx
                /\ hw = Replay(f.hw0, calls[s])

\* A sequence that failed after it had changed the device, with items left.
C7_Witness ==
    \E s \in live :
        /\ Applying(s)
        /\ frame[s].res = "Err"
        /\ Len(calls[s]) >= 2
        /\ hw # frame[s].hw0
        /\ frame[s].idx < Len(frame[s].cfg)

\* C8: a value that resolves to a sequence, sent to a session without a device
\* handle, returns success,
\* issues no device call and changes nothing of the session or of the device.
C8_NoDeviceNoOp ==
    [][\A s \in live :
          (dev[s] = "None" /\ on_cmd_port(s) /\ resolve(msg'[s]).ok) =>
              /\ result'[s] = "Ok"
              /\ calls'[s] = <<>>
              /\ dev'[s] = "None"
              /\ chans'[s] = chans[s]
              /\ <<hw, frame, pc, stream, init_cfg>>' = <<hw, frame, pc, stream, init_cfg>>]_vars

\* A session without a handle that has answered a command.
C8_Witness ==
    \E s \in live :
        /\ dev[s] = "None"
        /\ pc[s] = "new"
        /\ msg[s].port = "cmd"
        /\ result[s] = "Ok"
        /\ calls[s] = <<>>

\* C9: every application starts with all the session's channels and the
\* block's default direction, whatever scope the previous one ended with.
C9_ScopeStartsFresh ==
    \A s \in live :
        (pc[s] = "apply" /\ frame[s].idx = 1 /\ frame[s].di = 1 /\ frame[s].ci = 1) =>
            /\ frame[s].chans = chans[s]
            /\ frame[s].dir_flags = <<DefaultDir(s)>>

\* The start of an application that follows one which ended on channel 1 only
\* and on both directions.
C9_Witness ==
    \E s \in live :
        /\ pc[s] = "apply"
        /\ frame[s].idx = 1
        /\ frame[s].by = "cmd"
        /\ chans[s] = <<0, 1>>
        /\ frame[s].prev_chans = <<1>>
        /\ frame[s].prev_dirs = <<"Rx", "Tx">>

\* C10: init acquires the handle, then stores the channel list of the init
\* configuration, then applies the initial sequence: the handle is present
\* when the list is stored, and both are in place while the initial sequence
\* is applied, so each of its calls is for a channel of that list.
C10_InitOrder ==
    \A s \in live :
        /\ pc[s] \in {"init_chans", "init_apply"} => dev[s] = "Some"
        /\ pc[s] = "init_apply" => chans[s] = init_cfg[s].chans
        /\ frame[s].by = "init" =>
              /\ dev[s] = "Some"
              /\ chans[s] = init_cfg[s].chans
              /\ frame[s].cfg = init_cfg[s].config
              /\ \A c \in Range(calls[s]) : c.chan \in Range(init_cfg[s].chans)

\* A device call of the initial sequence.
C10_Witness ==
    \E s \in live :
        /\ frame[s].by = "init"
        /\ pc[s] = "apply"
        /\ calls[s] # <<>>

\* C11: when the specifier is a filter string and the lookup fails, init fails:
\* the handle stays absent, no call of the initial sequence is issued (the
\* engine is never entered and the device is as it was), no stream is created,
\* init returns an error and the session never gets ready.
C11_LookupFailureFatal ==
    \A s \in live :
        (dev[s] = "None" /\ pc[s] \notin {"new", "configure_logging"}) =>
            /\ init_cfg[s].dev = "Filter"
            /\ pc[s] \in {"init_stream", "failed"}
            /\ calls[s] = <<>>
            /\ frame[s] = NoFrame
            /\ hw = HwInit
            /\ stream[s] = "None"
            /\ pc[s] = "failed" => result[s] = "Err"

\* An init that has failed on the lookup, with an initial sequence to apply.
C11_Witness ==
    \E s \in live :
        /\ pc[s] = "failed"
        /\ dev[s] = "None"
        /\ init_cfg[s].dev = "Filter"
        /\ init_cfg[s].config # <<>>

\* C12: the handle of a session changes only from absent to present, and only
\* in the acquisition step of init; no handler of a port, no application and
\* no deinit replaces or clears it.
C12_HandleSetOnce ==
    [][\A s \in live :
          /\ dev'[s] # dev[s] => (dev[s] = "None" /\ dev'[s] = "Some" /\ init_acquire(s))
          /\ init_acquire(s) => dev[s] = "None"]_vars

\* A block with its handle that has been initialized, has used up its budget
\* on its ports and has been stopped.
C12_Witness ==
    \E s \in live :
        /\ pc[s] = "stopped"
        /\ dev[s] = "Some"
        /\ left = 0
        /\ hw # HwInit

\* C13: the init guard serializes the setup call of the hardware library: when
\* several sessions start concurrently, no two of them are in that call at
\* once.
C13_SetupSerialized ==
    \A s, t \in live :
        (s # t /\ pc[s] = "configure_logging") => pc[t] # "configure_logging"

\* C14: on one device the calls of two sequences never interleave: no two
\* sessions are both inside an application that has issued a call and has
\* not returned.
C14_NoInterleaving ==
    \A s, t \in live :
        s # t => ~(/\ pc[s] = "apply" /\ calls[s] # <<>>
                   /\ pc[t] = "apply" /\ calls[t] # <<>>)

\* The handler of the cmd port of s has its result.
CmdDone(s) == msg[s].port = "cmd" /\ pc[s] # "apply"
\* The handler of the cmd port of s has entered the engine.
Entered(s) == frame[s].by = "cmd"

\* C15: the handler of the cmd port returns Null exactly when the value
\* resolved to a sequence and its application reported success (at once when
\* the handle is absent); otherwise it returns the first error: that of the
\* conversion, with the engine not entered and no call issued, or that of the
\* first failing call, which is the last call issued.
C15_CmdResult ==
    \A s \in live :
        CmdDone(s) =>
            LET r == resolve(msg[s])
                n == Len(calls[s])
            IN  /\ result[s] \in {"Ok", "Err"}
                /\ (result[s] = "Ok") <=>
                      /\ r.ok
                      /\ IF dev[s] = "None" THEN ~Entered(s)
                         ELSE Entered(s) /\ frame[s].res = "Ok"
                /\ result[s] = "Ok" => \A m \in 1 .. n : calls[s][m].ok
                /\ (result[s] = "Err" /\ ~r.ok) => (calls[s] = <<>> /\ ~Entered(s))
                /\ (result[s] = "Err" /\ r.ok) =>
                      /\ Entered(s) /\ frame[s].res = "Err"
                      /\ n > 0 /\ ~calls[s][n].ok
                      /\ \A m \in 1 .. n - 1 : calls[s][m].ok

\* A map that was converted and whose application failed on its second call.
C15_Witness ==
    \E s \in live :
        /\ CmdDone(s)
        /\ msg[s].t = "MapStrPmt"
        /\ result[s] = "Err"
        /\ Len(calls[s]) = 2

Recognized(e) == e.key \in MapKeys
\* The value of the pair has the shape the table gives for its key.
WellShaped(e) ==
    \/ e.key = "antenna" /\ e.val.t = "String"
    \/ e.key \in MapKeys \ {"antenna"} /\ e.val.t \in NumericTypes
\* The items of the well-shaped pairs of a map, in iteration order.
ItemsOf(m) ==
    LET w == SelectSeq(m, WellShaped)
    IN  [n \in 1 .. Len(w) |-> produced_item(w[n].key, w[n].val.v)]
MapMsg(s) == msg[s].port = "cmd" /\ msg[s].t = "MapStrPmt"

\* C17: a recognized key with a value of the wrong shape is skipped: the
\* conversion of the map still succeeds and yields the items of every
\* well-shaped pair of the map.
C17_WrongShapeSkipped ==
    \A s \in live :
        (MapMsg(s) /\ dev[s] = "Some") =>
            (Entered(s) /\ frame[s].cfg = ItemsOf(msg[s].entries))

\* C18: a key the converter does not recognize is skipped wherever it comes in
\* the iteration: the map is converted as the same map without that key is,
\* and a conversion that yields a result yields exactly the items of the
\* recognized, well-shaped pairs; it always does when the value of every
\* recognized key is well-shaped.
C18_UnknownKeySkipped ==
    \A s \in live :
        (MapMsg(s) /\ dev[s] = "Some" /\ \E e \in Range(msg[s].entries) : ~Recognized(e)) =>
            LET m == msg[s].entries
                c == try_from_map(SelectSeq(m, Recognized), <<>>)
            IN  /\ Entered(s) <=> c.ok
                /\ Entered(s) => (frame[s].cfg = c.cfg /\ frame[s].cfg = ItemsOf(m))
                /\ (\A e \in Range(m) : Recognized(e) => WellShaped(e)) => Entered(s)

\* A map whose first pair has an unrecognized key, and a call for its second.
C18_Witness ==
    \E s \in live :
        /\ MapMsg(s)
        /\ Len(msg[s].entries) = 2
        /\ ~Recognized(msg[s].entries[1])
        /\ calls[s] # <<>>

ChannelsOf(cs) ==
    LET w == SelectSeq(cs, LAMBDA c : c.m = "channel") IN [n \in 1 .. Len(w) |-> w[n].v]
SettingsOf(cs) ==
    LET w == SelectSeq(cs, LAMBDA c : c.m # "channel")
    IN  [n \in 1 .. Len(w) |-> Setting(w[n].m, w[n].v)]

\* C20: init applies the settings of the builder in the order its methods were
\* called: the initial sequence is those settings in call order, each item
\* issues its calls before the next, in the block's default direction and
\* once for every channel added with channel(), in the order added; a source
\* built with channel(0), sample_rate(1), freq(100), gain(1) whose initial
\* sequence was applied without failure holds these values for (Rx, 0).
C20_BuilderOrder ==
    \A s \in live :
        frame[s].by = "init" =>
            LET cs == init_cfg[s].methods
                f == frame[s]
            IN  /\ f.cfg = SettingsOf(cs)
                /\ \A i \in Processed(s) :
                      CallsOfItem(s, i) =
                          [n \in 1 .. Len(ChannelsOf(cs)) |->
                              Call(i, f.cfg[i].k, DefaultDir(s), ChannelsOf(cs)[n], f.cfg[i].v)]
                /\ \A n \in 2 .. Len(calls[s]) : calls[s][n - 1].item <= calls[s][n].item
                /\ (s = "source" /\ cs = BuilderConfigCalls /\ f.res = "Ok") =>
                      /\ hw[<<"SampleRate", "Rx", 0>>] = 1
                      /\ hw[<<"Freq", "Rx", 0>>] = 100
                      /\ hw[<<"Gain", "Rx", 0>>] = 1

\* The source of builder_config after its initial sequence.
C20_Witness ==
    /\ "source" \in live
    /\ frame["source"].by = "init"
    /\ frame["source"].res = "Ok"
    /\ init_cfg["source"].methods = BuilderConfigCalls
    /\ Len(calls["source"]) = 3

\* The Direction item in force for item i of cfg (0: none yet).
GoverningDirection(cfg, i) == LastOf(cfg, i, "Direction")

\* The directions of the calls of item i, in the order they were issued.
DirsOfItem(s, i) == [n \in 1 .. Len(CallsOfItem(s, i)) |-> CallsOfItem(s, i)[n].dir]

\* C21: every direction handed to the device is Rx or Tx.  A setting item
\* processed under Direction(None) issues no call; one processed under
\* Direction(Both) issues, for the active channels in order, one call for Rx
\* each and then one call for Tx each.
C21_BackendDirections ==
    \A s \in live :
        /\ \A c \in Range(calls[s]) : c.dir \in Dirs
        /\ Applying(s) =>
              LET f == frame[s] IN
              \A i \in Processed(s) :
                  f.cfg[i].k \in SettingKinds =>
                      LET g == GoverningDirection(f.cfg, i)
                          cs == ScopeChansAt(f.cfg, i, s)
                      IN  /\ (g # 0 /\ f.cfg[g].d = "None") => CallsOfItem(s, i) = <<>>
                          /\ (g # 0 /\ f.cfg[g].d = "Both") =>
                                /\ DirsOfItem(s, i) =
                                      [n \in 1 .. 2 * Len(cs) |->
                                          IF n <= Len(cs) THEN "Rx" ELSE "Tx"]
                                /\ \A n \in 1 .. 2 * Len(cs) :
                                      CallsOfItem(s, i)[n].chan = cs[((n - 1) % Len(cs)) + 1]

\* A setting item under Direction(Both) over two channels, its four calls issued.
C21_Witness ==
    \E s \in live :
        /\ Applying(s)
        /\ \E i \in Processed(s) :
              /\ frame[s].cfg[i].k \in SettingKinds
              /\ GoverningDirection(frame[s].cfg, i) # 0
              /\ frame[s].cfg[GoverningDirection(frame[s].cfg, i)].d = "Both"
              /\ Len(CallsOfItem(s, i)) = 4

\* C22: pmt_to_f64 returns a number exactly for the variants F64, F32, U32 and
\* U64 and an error for every other variant, and pmt_to_usize accepts and
\* rejects exactly the same variants.
C22_NumericCoercion ==
    /\ op = "pmt_to_f64" => (out.ok <=> val.t \in {"F64", "F32", "U32", "U64"})
    /\ op = "pmt_to_usize" => (out.ok <=> val.t \in {"F64", "F32", "U32", "U64"})
    /\ op \in {"pmt_to_f64", "pmt_to_usize"} =>
          (val.t \in {"Null", "String", "VecF32", "VecU64", "Blob", "VecPmt", "MapStrPmt",
                      "Any", "AnySerde"} => ~out.ok)

\* A U64 coerced to a float.
C22_Witness == op = "pmt_to_f64" /\ val.t = "U64" /\ out.ok /\ out.v = val.v

\* Whether an Any or an AnySerde, or a NaN, occurs in p.
RECURSIVE HasOpaque(_)
HasOpaque(p) ==
    IF p.t \in OpaqueTypes THEN TRUE
    ELSE IF p.t = "VecPmt" THEN \E n \in 1 .. Len(p.ps) : HasOpaque(p.ps[n])
    ELSE IF p.t = "MapStrPmt" THEN \E n \in 1 .. Len(p.es) : HasOpaque(p.es[n].val)
    ELSE FALSE

RECURSIVE HasNaN(_)
HasNaN(p) ==
    IF p.t \in FloatTypes THEN p.v = NaN
    ELSE IF p.t = "VecF32" THEN \E n \in 1 .. Len(p.ns) : p.ns[n] = NaN
    ELSE IF p.t = "VecPmt" THEN \E n \in 1 .. Len(p.ps) : HasNaN(p.ps[n])
    ELSE IF p.t = "MapStrPmt" THEN \E n \in 1 .. Len(p.es) : HasNaN(p.es[n].val)
    ELSE FALSE

\* p with the pairs of every map in the order of their names.
RECURSIVE ByName(_)
ByName(p) ==
    IF p.t = "VecPmt" THEN PmtVec([n \in 1 .. Len(p.ps) |-> ByName(p.ps[n])])
    ELSE IF p.t = "MapStrPmt"
         THEN LET es == [n \in 1 .. Len(p.es) |-> Entry(p.es[n].key, ByName(p.es[n].val))]
              IN  PmtMap(IF Len(es) = 2 /\ es[1].key = "submap" THEN Reverse(es) ELSE es)
    ELSE p

\* C23: a == b is false when the variants differ and false when either side
\* is an Any or an AnySerde, also for a value and itself or its clone; for two
\* values of the same other variant it is the equality of their structure: the
\* same payload, element by element and name by name whatever the order of a
\* map, none of the parts being a box or a float that is not equal to itself.
C23_Equality ==
    op = "eq" =>
        /\ val.t # other.t => out = FALSE
        /\ (val.t \in OpaqueTypes \/ other.t \in OpaqueTypes) => out = FALSE
        /\ (val.t = other.t /\ val.t \notin OpaqueTypes) =>
              (out <=> /\ ByName(val) = ByName(other)
                       /\ ~HasOpaque(val)
                       /\ ~HasNaN(val))

\* An Any compared with its own clone.
C23_Witness ==
    /\ op = "eq"
    /\ val.t = "Any"
    /\ other = clone(val)
    /\ out = FALSE

\* C24: downcast_ref::<T>() on the payload of an Any or an AnySerde returns
\* the payload when its concrete type is T and None for every other T: a
\* mismatch is an absent result, nothing else.  SoapyConfig::try_from on an
\* Any whose payload is of another type returns an error.
C24_Downcast ==
    /\ op = "downcast_ref" =>
          /\ out.r.some \in BOOLEAN
          /\ out.r.some <=> val.b.type = out.T
          /\ out.r.some => out.r.x = val.b.x
    /\ (op = "try_from" /\ val.t = "Any" /\ val.b.type # "SoapyConfig") =>
          (out.ok = FALSE /\ out.cfg = <<>>)

\* An Any that holds a tuple, downcast to SoapyConfig.
C24_Witness ==
    /\ op = "downcast_ref"
    /\ val.t = "Any"
    /\ val.b.type = "Tuple"
    /\ out.T = "SoapyConfig"
    /\ ~out.r.some

C26_AnySerializes ==
    (op = "serialize" /\ val.t = "Any") => out.ok

\* The tags of the boxed payloads in w.
RECURSIVE TagsOf(_)
TagsOf(w) ==
    IF w.variant = "AnySerde" THEN {w.tagged.type}
    ELSE IF w.variant = "VecPmt" THEN UNION {TagsOf(w.ps[n]) : n \in 1 .. Len(w.ps)}
    ELSE IF w.variant = "MapStrPmt" THEN UNION {TagsOf(w.es[n].val) : n \in 1 .. Len(w.es)}
    ELSE {}

\* C27: deserializing an AnySerde written under a tag that has no registered
\* decoder fails with the error of an unknown tag: no value comes out of it,
\* a default one least of all.  Under a registered tag it yields the payload
\* that was written.
C27_UnknownTag ==
    op = "deserialize" =>
        /\ ~(TagsOf(out.wire) \subseteq Registry) =>
              (~out.r.ok /\ out.r.e = "unknown variant")
        /\ (out.wire.variant = "AnySerde" /\ out.wire.tagged.type \in Registry) =>
              /\ out.r.ok
              /\ out.r.v = PmtBox("AnySerde",
                                  Payload(out.wire.tagged.type, out.wire.tagged.fields))

\* An AnySerde with a tag nobody registered, read as the element of a VecPmt.
C27_Witness ==
    /\ op = "deserialize"
    /\ out.wire.variant = "VecPmt"
    /\ "Unregistered" \in TagsOf(out.wire)
    /\ ~out.r.ok

C29_DefaultChannel ==
    \A s \in live :
        /\ chans[s] # <<>>
        /\ init_cfg[s].chans = <<>> =>
              /\ chans[s] = <<0>>
              /\ frame[s].by = "init" =>
                    \A i \in Processed(s) :
                        frame[s].cfg[i].k \in SettingKinds =>
                            /\ CallsOfItem(s, i) # <<>>
                            /\ \A c \in Range(CallsOfItem(s, i)) : c.chan = 0

\* The initial sequence of s has just failed, or s is where that left it.
InitApplyFailed(fr, s) == fr[s].by = "init" /\ fr[s].res = "Err"

\* C30: when a device call of the initial sequence fails, init goes on to its
\* stream: the calls before the failed one are in place on the device, the
\* failed one is the last call of the sequence (the items after it are never
\* applied), and the result of init is that of the stream alone: Ok and ready
\* once the stream is created and activated, with the device as the sequence
\* left it.
C30_InitApplyErrorLogged ==
    [][\A s \in live :
          /\ InitApplyFailed(frame', s) =>
                LET cs == calls'[s]
                    f == frame'[s]
                IN  /\ pc'[s] = "init_stream"
                    /\ dev'[s] = "Some"
                    /\ cs # <<>>
                    /\ ~cs[Len(cs)].ok
                    /\ \A n \in 1 .. Len(cs) - 1 : cs[n].ok
                    /\ \A n \in 1 .. Len(cs) : cs[n].item <= f.idx
                    /\ cs[Len(cs)].item = f.idx
                    /\ hw' = Replay(f.hw0, cs)
          /\ (InitApplyFailed(frame, s) /\ pc'[s] # pc[s]) =>
                /\ hw' = hw
                /\ stream'[s] = "Active" => (result'[s] = "Ok" /\ pc'[s] = "ready")
                /\ stream'[s] # "Active" => (result'[s] = "Err" /\ pc'[s] = "failed")
      ]_vars

\* A session that is ready with result Ok although the second setting of its
\* initial sequence never reached the device: the first one is in place.
C30_Witness ==
    \E s \in live :
        /\ pc[s] = "ready"
        /\ result[s] = "Ok"
        /\ stream[s] = "Active"
        /\ msg[s] = NoMsg
        /\ init_cfg[s].chans = <<0>>
        /\ init_cfg[s].config = <<Setting("Freq", 1), Setting("Gain", 2)>>
        /\ hw[<<"Freq", DefaultDir(s), 0>>] = 1
        /\ hw[<<"Gain", DefaultDir(s), 0>>] = 0

\* The initial sequence of s has been applied, or has failed.
InitApplyOver(s) == frame[s].by = "init" /\ frame[s].res \in {"Ok", "Err"}

\* C31: a session without a handle has no stream; a stream is created or
\* activated by the stream step of init only, with the handle held and the
\* initial sequence applied or failed; and every device call of the initial
\* sequence is made while the session has no stream.
C31_StreamAfterHandleAndSequence ==
    /\ [](\A s \in live : dev[s] = "None" => stream[s] = "None")
    /\ [][\A s \in live :
            /\ (stream'[s] # stream[s] /\ stream'[s] \in {"Created", "Active"}
                    /\ pc[s] # "ready") =>
                  /\ pc[s] = "init_stream"
                  /\ stream[s] = "None"
                  /\ dev[s] = "Some" /\ dev'[s] = "Some"
                  /\ InitApplyOver(s)
                  /\ hw' = hw
            /\ (frame[s].by = "init" /\ calls'[s] # calls[s] /\ calls'[s] # <<>>) =>
                  stream[s] = "None" /\ stream'[s] = "None"
       ]_vars

\* A ready session with an active stream whose one-item initial sequence is
\* the only setting the run has applied: its value is on the device.
C31_Witness ==
    \E s \in live :
        /\ pc[s] = "ready"
        /\ stream[s] = "Active"
        /\ dev[s] = "Some"
        /\ init_cfg[s].chans = <<0>>
        /\ init_cfg[s].config = <<Setting("Gain", 1)>>
        /\ left = MaxItems - 1
        /\ hw[<<"Gain", DefaultDir(s), 0>>] = 1

\* A step of apply_config of s: its prologue (entered from the cmd port or from
\* init, or returning at once without a handle), an item, a call, its return.
ApplyStep(s) ==
    \/ pc[s] = "apply"
    \/ pc'[s] = "apply"
    \/ Idle(s) /\ msg'[s].port = "cmd"

\* C32: no step of apply_config changes the channel list or the handle of its
\* session, whatever the sequence and whether it ends in Ok, ends in the error
\* of a call, or returns at once for want of a handle.
C32_ApplyKeepsSession ==
    [][\A s \in live :
          ApplyStep(s) => chans'[s] = chans[s] /\ dev'[s] = dev[s]]_vars

\* An application that narrowed its scope to a channel other than the
\* session's and returned: the session still has its own list.
C32_Witness ==
    \E s \in live :
        /\ pc[s] = "returned"
        /\ frame[s].by = "cmd"
        /\ frame[s].res \in {"Ok", "Err"}
        /\ calls[s] # <<>>
        /\ frame[s].chans = <<1>>
        /\ chans[s] = <<0>>
        /\ dev[s] = "Some"

\* The (direction, channel) pairs of a sequence of calls, in order.
Targets(cs) == [n \in 1 .. Len(cs) |-> <<cs[n].dir, cs[n].chan>>]

\* C33: with two sessions on one handle applying at once, the scope of an
\* application is its own: the channels and directions in force are those its
\* own items selected (read off its own sequence and its session's list), every
\* call it has issued is on a pair its own items had in scope, an item it has
\* left behind went to exactly those pairs, and a step of one session leaves
\* the locals of the other's application alone.
C33_ScopePrivate ==
    /\ [](\A s \in live :
            Applying(s) =>
                LET f == frame[s] IN
                /\ pc[s] = "apply" =>
                      /\ f.chans = ScopeChansAt(f.cfg, f.idx, s)
                      /\ f.dir_flags = ScopeDirsAt(f.cfg, f.idx, s)
                /\ \A c \in Range(calls[s]) : InScope(f.cfg, c.item, s, c.dir, c.chan)
                /\ \A i \in Processed(s) :
                      Targets(CallsOfItem(s, i)) =
                          IF f.cfg[i].k \in SettingKinds
                          THEN Targets(ExpectedCalls(f.cfg, i, s)) ELSE <<>>)
    /\ [][\A s, t \in live :
            (s # t /\ frame'[s] # frame[s]) => frame'[t] = frame[t]]_vars

\* The source has narrowed its scope to channel 1 and is still applying, while
\* the sink, applying at the same time, has issued its calls on channels 0
\* and 1.
C33_Witness ==
    /\ live = Sessions
    /\ pc["source"] = "apply" /\ pc["sink"] = "apply"
    /\ frame["source"].by = "cmd" /\ frame["sink"].by = "cmd"
    /\ frame["source"].chans = <<1>>
    /\ frame["sink"].chans = <<0, 1>>
    /\ Targets(calls["sink"]) = <<<<"Tx", 0>>, <<"Tx", 1>>>>

\* The application of s has returned the error of a device call.
FailedIn(s) == Applying(s) /\ frame[s].res = "Err"

\* C34: when a call of a setting item fails, the calls of the item are a
\* prefix of its fan-out (directions Rx then Tx, channels in list order within
\* a direction) ending in the failed one; the pairs before it hold the value of
\* the item, the pairs after it hold what they held before the item, and the
\* application returns the error of the failed call at once.
C34_PartialFanOut ==
    \A s \in live :
        FailedIn(s) =>
            LET f == frame[s]
                i == f.idx
                exp == ExpectedCalls(f.cfg, i, s)
                got == CallsOfItem(s, i)
                n == Len(got)
                before == Replay(f.hw0, SelectSeq(calls[s], LAMBDA c : c.item < i))
                pair(m) == <<f.cfg[i].k, exp[m].dir, exp[m].chan>>
            IN  /\ f.cfg[i].k \in SettingKinds
                /\ n >= 1 /\ n <= Len(exp)
                /\ Targets(got) = SubSeq(Targets(exp), 1, n)
                /\ \A m \in 1 .. n - 1 : got[m].ok /\ hw[pair(m)] = f.cfg[i].v
                /\ ~got[n].ok
                /\ \A m \in n + 1 .. Len(exp) : hw[pair(m)] = before[pair(m)]
                /\ got[n] = calls[s][Len(calls[s])]
                /\ pc[s] = f.ret
                /\ f.by = "cmd" => result[s] = "Err"

\* An item that fans out over Rx and Tx on channels 0 and 1 and fails on its
\* third pair: Rx 0 and Rx 1 hold its value, Tx 0 and Tx 1 do not.
C34_Witness ==
    \E s \in live :
        /\ FailedIn(s)
        /\ frame[s].by = "cmd"
        /\ Targets(CallsOfItem(s, frame[s].idx)) = <<<<"Rx", 0>>, <<"Rx", 1>>, <<"Tx", 0>>>>
        /\ Len(ExpectedCalls(frame[s].cfg, frame[s].idx, s)) = 4
        /\ LET k == frame[s].cfg[frame[s].idx].k
               v == frame[s].cfg[frame[s].idx].v
           IN  /\ hw[<<k, "Rx", 0>>] = v /\ hw[<<k, "Rx", 1>>] = v
               /\ hw[<<k, "Tx", 0>>] # v /\ hw[<<k, "Tx", 1>>] # v

LegacyPorts == {"freq", "sample_rate"}
LegacyKind(port) == IF port = "freq" THEN "Freq" ELSE "SampleRate"

\* A step in which s, holding a handle, takes a message on a legacy port.
LegacyStepWithDev(s) ==
    /\ Idle(s) /\ dev[s] = "Some"
    /\ msg'[s].port \in LegacyPorts
    /\ pc'[s] = "returned"

\* C35: with a handle, a numeric value on the freq or sample_rate port issues
\* exactly one call, set_frequency / set_sample_rate on channel 0 in the
\* block's own direction with the value as f64, whatever the channel list of
\* the session; the handler replies Ok when the call succeeds (and the device
\* holds the value on that pair alone) and its error otherwise.  A value that
\* is not numeric replies the conversion error, issues no call and leaves the
\* device alone.
C35_LegacyOneCallChannel0 ==
    [][\A s \in live :
          LegacyStepWithDev(s) =>
              LET m == msg'[s]
                  p == Pmt(m.t, m.v)
                  t == <<LegacyKind(m.port), DefaultDir(s), 0>>
              IN  IF p.t \in NumericTypes
                  THEN /\ Len(calls'[s]) = 1
                       /\ calls'[s][1].k = t[1]
                       /\ calls'[s][1].dir = t[2]
                       /\ calls'[s][1].chan = t[3]
                       /\ calls'[s][1].v = p.v
                       /\ result'[s] = (IF calls'[s][1].ok THEN "Ok" ELSE "Err")
                       /\ hw' = IF calls'[s][1].ok THEN [hw EXCEPT ![t] = p.v] ELSE hw
                  ELSE /\ calls'[s] = <<>>
                       /\ result'[s] = "Err"
                       /\ hw' = hw
      ]_vars

\* An integer sent to the sample_rate port of a sink whose channel list is
\* <<0, 1>>: one call, on (Tx, 0), and channel 1 untouched.
C35_Witness ==
    /\ "sink" \in live
    /\ pc["sink"] = "returned"
    /\ msg["sink"].port = "sample_rate" /\ msg["sink"].t = "U32"
    /\ chans["sink"] = <<0, 1>>
    /\ Len(calls["sink"]) = 1
    /\ result["sink"] = "Ok"
    /\ hw[<<"SampleRate", "Tx", 0>>] = msg["sink"].v
    /\ hw[<<"SampleRate", "Tx", 1>>] = 0
    /\ hw[<<"SampleRate", "Rx", 0>>] = 0

\* A step in which s, without a handle, takes a message on the port(s) ports.
StepWithoutDev(s, ports) == Idle(s) /\ dev[s] = "None" /\ msg'[s].port \in ports

\* C36: without a handle, a message on the freq or sample_rate port replies
\* an error, whether its value is numeric or not, issues no call and changes
\* nothing of the device or of the session; a message on the cmd port that
\* resolves to a sequence replies Ok in the same state.
C36_LegacyNoDevice ==
    [][\A s \in live :
          /\ StepWithoutDev(s, LegacyPorts) =>
                /\ result'[s] = "Err"
                /\ calls'[s] = <<>>
                /\ hw' = hw
                /\ dev'[s] = "None" /\ chans'[s] = chans[s] /\ stream'[s] = stream[s]
                /\ frame'[s] = frame[s] /\ pc'[s] = pc[s]
          /\ (StepWithoutDev(s, {"cmd"}) /\ resolve(msg'[s]).ok) =>
                /\ result'[s] = "Ok"
                /\ calls'[s] = <<>>
                /\ hw' = hw
      ]_vars

\* A number sent to the freq port of a session that has no handle: an error.
C36_Witness ==
    \E s \in live :
        /\ dev[s] = "None"
        /\ pc[s] = "new"
        /\ msg[s].port = "freq" /\ msg[s].t \in NumericTypes
        /\ result[s] = "Err"
        /\ calls[s] = <<>>
        /\ hw = HwInit

\* The calls sequence c issues when every call succeeds, applied by s: those of
\* its items, in item order.
RECURSIVE CallsUpTo(_, _, _)
CallsUpTo(c, i, s) ==
    IF i = 0 THEN <<>>
    ELSE CallsUpTo(c, i - 1, s)
            \o (IF c[i].k \in SettingKinds THEN ExpectedCalls(c, i, s) ELSE <<>>)

\* A call without its outcome.
Issued(cs) == [n \in 1 .. Len(cs) |-> [cs[n] EXCEPT !.ok = TRUE]]

\* The calls of the handler of s are those sequence c issues: all of them once
\* it has returned Ok, and the ones up to a failed call otherwise.
IssuesCallsOf(s, c) ==
    LET all == CallsUpTo(c, Len(c), s)
        n == Len(calls[s])
    IN  /\ n <= Len(all)
        /\ Issued(calls[s]) = SubSeq(all, 1, n)
        /\ AppliedOk(s) => n = Len(all)

\* C37: SoapyCommand::GetConfig on the cmd port replies an error, never enters
\* the engine and issues no call, with or without a handle.
\* SoapyCommand::Config(c) is resolved to c as an Any holding c is, enters the
\* engine with c and issues the calls of c, which are the calls the handler
\* issues for c sent as it is.
C37_Commands ==
    \A s \in live :
        msg[s].port = "cmd" =>
            LET m == msg[s] IN
            /\ m.t = "AnyCommandGetConfig" =>
                  ~Entered(s) /\ result[s] = "Err" /\ calls[s] = <<>>
            /\ m.t = "AnyCommandConfig" =>
                  resolve(m) = resolve([m EXCEPT !.t = "AnyConfig"])
            /\ (m.t \in {"AnyCommandConfig", "AnyConfig"} /\ ~m.open) =>
                  IF dev[s] = "None" THEN ~Entered(s) /\ calls[s] = <<>>
                  ELSE Entered(s) /\ frame[s].cfg = m.cfg /\ IssuesCallsOf(s, m.cfg)

\* The multichannel sequence sent as SoapyCommand::Config and applied on
\* channels 0 and 1: the calls of its five setting items, the first of which
\* fans out over two directions and two channels.
C37_Witness ==
    \E s \in live :
        /\ msg[s].port = "cmd"
        /\ msg[s].t = "AnyCommandConfig"
        /\ msg[s].cfg = MultichanSeq
        /\ chans[s] = <<0, 1>>
        /\ AppliedOk(s)
        /\ Len(calls[s]) = Len(CallsUpTo(MultichanSeq, Len(MultichanSeq), s))
        /\ Targets(CallsOfItem(s, 3)) = <<<<"Rx", 0>>, <<"Rx", 1>>, <<"Tx", 0>>, <<"Tx", 1>>>>

====
